---- MODULE Spec2Model ----
(***************************************************************************)
(* dspx: the atomic empty-directory purger                                 *)
(* (src/src/app/core/delete_empty_dirs.py) and the duplicate scan of       *)
(* src/main.py, over one shared model of the directory tree.               *)
(*                                                                         *)
(* A path is the sequence of the names below the root the purger (or the   *)
(* scan) was given; the root itself is the empty sequence.  A name is a    *)
(* base name plus the ".purge.<hex>" suffixes appended to it so far.       *)
(***************************************************************************)
EXTENDS Integers, Sequences, FiniteSets, TLC

\* ------------------------------------------------------------------ bounds
\* Number of AtomicEmptyDirPurger objects whose run() may be called.
NumRuns == 3

\* Number of run() calls made one after another on one root.
MaxSeqRuns == 2

\* The values uuid.uuid4().hex[:8] is drawn from (line 136), abstracted.
Hex == {1, 2}

\* ------------------------------------------------------------------- names
Nm(b) == [base |-> b, sfx |-> << >>]

\* lock_name: str = ".purge.lock"
lock_name == Nm(".purge.lock")

\* self.root (every path of the model is relative to it)
root == << >>

\* self.lock_dir = self.root / lock_name
lock_dir == <<lock_name>>

\* The one name the concurrent writer gives the files it creates.
WriterFile == Nm("f")

\* p.with_name(p.name + f".purge.{hex}")
WithPurgeSuffix(p, h) ==
    [p EXCEPT ![Len(p)] = [@ EXCEPT !.sfx = Append(@, h)]]

\* The name a quarantined path was renamed from (drops the last suffix).
Original(p) ==
    [p EXCEPT ![Len(p)] = [@ EXCEPT !.sfx = SubSeq(@, 1, Len(@) - 1)]]

IsQuarantined(p) == p # << >> /\ p[Len(p)].sfx # << >>

\* Character order of the base names in use ('.' < 'a' < 'b' < ...).
BaseRank(b) ==
    CASE b = ".DS_Store"   -> 0
      [] b = ".purge.lock" -> 1
      [] b = "a"           -> 2
      [] b = "b"           -> 3
      [] b = "b_copy"      -> 4
      [] b = "c"           -> 5
      [] b = "d"           -> 6
      [] b = "f"           -> 7
      [] b = "x.txt"       -> 8
      [] b = "y.txt"       -> 9
      [] OTHER             -> 10

\* s1 < s2 as strings, for the suffix parts of two names with the same base.
\* last1 (last2) says the first (second) name ends its path string; otherwise
\* a '/' follows it, and end-of-string < '.' < '/'.
RECURSIVE SfxLess(_, _, _, _)
SfxLess(s1, s2, last1, last2) ==
    IF s1 = << >> THEN s2 # << >> /\ last1
    ELSE IF s2 = << >> THEN ~last2
    ELSE IF Head(s1) # Head(s2) THEN Head(s1) < Head(s2)
    ELSE SfxLess(Tail(s1), Tail(s2), last1, last2)

\* str(p) < str(q)
RECURSIVE StrLess(_, _)
StrLess(p, q) ==
    IF p = << >> THEN q # << >>
    ELSE IF q = << >> THEN FALSE
    ELSE IF Head(p) = Head(q) THEN StrLess(Tail(p), Tail(q))
    ELSE IF Head(p).base # Head(q).base
         THEN BaseRank(Head(p).base) < BaseRank(Head(q).base)
    ELSE SfxLess(Head(p).sfx, Head(q).sfx, Len(p) = 1, Len(q) = 1)

\* The sort key of phase2_delete: (-len(p.parts), str(p)).
KeyLess(p, q) == Len(p) > Len(q) \/ (Len(p) = Len(q) /\ StrLess(p, q))

\* Insert p into a sequence already ordered by `KeyLess` (stable).
RECURSIVE InsertByKey(_, _)
InsertByKey(p, s) ==
    IF s = << >> THEN <<p>>
    ELSE IF KeyLess(p, Head(s)) THEN <<p>> \o s
    ELSE <<Head(s)>> \o InsertByKey(p, Tail(s))

\* self.renamed in the order phase 1 recorded it, not sorted.
RecordedOrder(s) == s

\* sorted(self.renamed, key=lambda p: (-len(p.parts), str(p)))
RECURSIVE SortedDeepestFirst(_)
SortedDeepestFirst(s) ==
    IF s = << >> THEN << >>
    ELSE InsertByKey(s[Len(s)], SortedDeepestFirst(SubSeq(s, 1, Len(s) - 1)))

\* The paths of a set, in ascending string order (the order the model gives
\* the entries of one directory listing).
RECURSIVE AscendingSeq(_)
AscendingSeq(S) ==
    IF S = {} THEN << >>
    ELSE LET m == CHOOSE x \in S : \A y \in S \ {x} : StrLess(x, y)
         IN  <<m>> \o AscendingSeq(S \ {m})

Reverse(s) == [i \in 1..Len(s) |-> s[Len(s) + 1 - i]]

Range(s) == {s[i] : i \in 1..Len(s)}

\* -------------------------------------------------------------- the state
VARIABLES
    dirs,       \* the directories that exist (paths; the root is always one)
    files,      \* the regular files that exist: path -> content
    pc,         \* per purger: where its run() is
    dry,        \* per purger: self.dry
    stack,      \* per purger: the stack of os.walk(root, topdown=False)
    cur,        \* per purger: the directory between re-check and rename
    renamed,    \* per purger: self.renamed
    deleted,    \* per purger: self.deleted
    ordered,    \* per purger: what is left of phase 2's `ordered`
    raised,     \* per purger: the exception run() propagates ("": none)
    owner,      \* who created the lock directory that exists now (0: nobody
                \* of the model: it was there before)
    mutations   \* per purger: rename/rmdir/mkdir calls of the run that
                \* changed the tree, as <<call, path>>

\* The duplicate scan (ScanWorker, operation "scan_duplicates") and the list
\* MainWindow shows its result in.
VARIABLES
    directories,     \* ScanWorker.directories: the scan roots, in list order
    max_workers,     \* ScanWorker.max_workers
    is_cancelled,    \* ScanWorker._is_cancelled
    spc,             \* where the scan is
    rootIdx,         \* scan_for_duplicates: the next element of directories
    dwalk,           \* scan_for_duplicates: the stack of os.walk(dir_path)
    files_to_hash,   \* scan_for_duplicates: files_to_hash (the paths)
    ntasks,          \* _hash_files_parallel: len(tasks)
    taskIdx,         \* _hash_files_parallel: the task awaited next
    inflight,        \* the tasks whose hash a pool thread is computing
    hashed,          \* the tasks whose `await` returned a digest
    file_hashes,     \* _hash_files_parallel: file_hashes, in insertion order
    file_info,       \* _hash_files_parallel: file_info (path -> digest)
    result,          \* what scan_for_duplicates returned
    emitted,         \* what ScanWorker.run emitted with signals.finished
    duplicates_list  \* MainWindow.duplicates_list: the rows shown

\* The batch deleter (DeletionWorker).
VARIABLES
    items,           \* DeletionWorker.items: the paths to delete, in order
    item_type,       \* DeletionWorker.item_type
    del_cancelled,   \* DeletionWorker._is_cancelled
    dpc,             \* where DeletionWorker.run is
    dIdx,            \* run: the item the loop is at (from 1)
    deleted_count,   \* run: deleted_count
    failed_items     \* run: failed_items (the paths)

\* The pattern table and one call of match_residual_pattern.
VARIABLES
    self_patterns,   \* MainWindow.patterns: the rows of the pattern table
    match_path,      \* match_residual_pattern: the path it is called with
    matched          \* what the call returned: the index of the pattern in
                     \* the list, 0 for None (-1: not called)

\* The pattern list a ScanWorker holds.
VARIABLES
    worker_patterns  \* ScanWorker.patterns: the list the worker was made with

\* The residual scan (ScanWorker, operation "scan_residual"); it shares the
\* worker's variables with the duplicate scan.
VARIABLES
    residual_files   \* scan_residual_files: residual_files, and what it
                     \* returned: (path, pattern) pairs

\* What the duplicate scan before the current one came to.
VARIABLES
    first_scan       \* its result, the tasks it hashed and the rows shown
                     \* for it (NoFirst: there was none)

\* The empty-directory scan (ScanWorker, operation "scan_empty_dirs"); it
\* shares the worker's variables with the other scans.
VARIABLES
    all_dirs,        \* scan_empty_directories: all_dirs of the current root
    eIdx,            \* the element of all_dirs the second loop is at
    empty_dirs       \* scan_empty_directories: empty_dirs, and what it
                     \* returned

\* The user's request to stop what is running.
VARIABLES
    stop_requested   \* MainWindow.stop_operation has been called

\* What else the file system holds. No operation of the program makes or
\* changes these.
VARIABLES
    links,           \* the symbolic links that exist: path -> target path
                     \* (the target is not itself a link)
    unreadable       \* the directories whose listing fails (os.scandir
                     \* raises PermissionError)

\* What the residual scan reports with signals.log about a directory it
\* could not scan.
VARIABLES
    res_log          \* the "Warning: ..." and "Error scanning ..." messages
                     \* of scan_residual_files: <<level, directory>> records

\* What the residual scan reports with signals.progress.
VARIABLES
    total_scanned,   \* scan_residual_files: total_scanned
    res_progress     \* the counts of the "Scanned N items..." events emitted
                     \* with signals.progress, in order

\* Deleting the empty directories from the window (MainWindow.delete_empty_dirs,
\* which runs in the thread of the window).
VARIABLES
    edpc,            \* where delete_empty_dirs is
    root_dirs,       \* delete_empty_dirs: root_dirs
    iteration,       \* delete_empty_dirs: iteration
    round_dirs,      \* delete_empty_dirs: its own empty_dirs, the directories
                     \* the current round found empty
    rIdx,            \* the element of round_dirs the deleting loop is at
    deleted_this_round  \* delete_empty_dirs: deleted_this_round

purgeVars == <<pc, dry, stack, cur, renamed, deleted, ordered, raised, owner,
               mutations>>
scanVars == <<directories, max_workers, is_cancelled, spc, rootIdx, dwalk,
              files_to_hash, ntasks, taskIdx, inflight, hashed,
              file_hashes, file_info, result, emitted, duplicates_list>>
fsVars == <<dirs, files, links, unreadable>>
delVars == <<items, item_type, del_cancelled, dpc, dIdx, deleted_count,
             failed_items>>
\* What a purger leaves alone, and what a scan leaves alone.
matchVars == <<self_patterns, match_path, matched, worker_patterns>>
progressVars == <<total_scanned, res_progress>>
resVars == <<residual_files, all_dirs, eIdx, empty_dirs, res_log,
             progressVars>>
emptyDelVars == <<edpc, root_dirs, iteration, round_dirs, rIdx,
                  deleted_this_round>>
histVars == <<first_scan, stop_requested, emptyDelVars>>
nonPurgeVars == <<scanVars, delVars, matchVars, resVars, histVars, links,
                  unreadable>>
nonScanVars == <<fsVars, purgeVars, delVars, matchVars, resVars, histVars>>
nonDelVars == <<purgeVars, scanVars, matchVars, resVars, histVars, links,
                unreadable>>
nonMatchVars == <<fsVars, purgeVars, scanVars, delVars, resVars, histVars>>
vars == <<dirs, files, pc, dry, stack, cur, renamed, deleted, ordered, raised,
          owner, mutations, directories, max_workers, is_cancelled, spc,
          rootIdx, dwalk, files_to_hash, ntasks, taskIdx, inflight, hashed,
          file_hashes, file_info, result, emitted, duplicates_list, items,
          item_type, del_cancelled, dpc, dIdx, deleted_count, failed_items,
          self_patterns, match_path, matched, residual_files, first_scan,
          all_dirs, eIdx, empty_dirs, stop_requested, links, unreadable,
          res_log, worker_patterns, edpc, root_dirs, iteration, round_dirs,
          rIdx, deleted_this_round, total_scanned, res_progress>>

Runs == 1..NumRuns

\* ------------------------------------------------------- the file system
Parent(q) == SubSeq(q, 1, Len(q) - 1)

IsUnder(p, q) == Len(q) >= Len(p) /\ SubSeq(q, 1, Len(p)) = p

ChildDirs(p) == {q \in dirs : Len(q) = Len(p) + 1 /\ Parent(q) = p}

ChildFiles(p) == {q \in DOMAIN files : Len(q) = Len(p) + 1 /\ Parent(q) = p}

ChildLinks(p) == {q \in DOMAIN links : Len(q) = Len(p) + 1 /\ Parent(q) = p}

\* os.listdir(p), for a directory p that exists
Entries(p) == ChildDirs(p) \cup ChildFiles(p) \cup ChildLinks(p)

\* What a call that follows symbolic links finds at p.
Target(p) == IF p \in DOMAIN links THEN links[p] ELSE p

\* Path.is_file() and Path.is_dir(), which follow symbolic links.
ResolvesToFile(p) == Target(p) \in DOMAIN files
ResolvesToDir(p) == Target(p) \in dirs

\* os.walk(top) with followlinks=False, one directory p: its `dirs` are the
\* entries that are directories or links to one, its `files` the others; it
\* descends into the directories only (ChildDirs), not into the links.
ListedDirs(p) == ChildDirs(p) \cup {q \in ChildLinks(p) : ResolvesToDir(q)}
ListedFiles(p) == ChildFiles(p) \cup {q \in ChildLinks(p) : ~ResolvesToDir(q)}

\* Where the entry at q is after os.rename(p, new).
Moved(p, new, q) ==
    IF IsUnder(p, q) THEN new \o SubSeq(q, Len(p) + 1, Len(q)) ELSE q

\* os.rename(p, new) succeeds: p is a directory and new names nothing (the
\* random suffix makes new a fresh name; a clash is not modelled).
RenameOk(p, new) == p \in dirs /\ new \notin dirs /\ new \notin DOMAIN files

\* os.rename as a copy: the old name stays.
DirsAfterCopy(p, new) == dirs \cup {Moved(p, new, q) : q \in dirs}

DirsAfterRename(p, new) == {Moved(p, new, q) : q \in dirs}

FilesAfterRename(p, new) ==
    [q \in {Moved(p, new, f) : f \in DOMAIN files} |->
        files[CHOOSE f \in DOMAIN files : Moved(p, new, f) = q]]

\* Path.rmdir() / os.rmdir succeeds: d is a directory with no entry;
\* otherwise it raises OSError (ENOENT, ENOTEMPTY).
RmdirForce(d) == d \in dirs
RmdirOk(d) == d \in dirs /\ Entries(d) = {}

DirsAfterRemove(d) == {q \in dirs : ~IsUnder(d, q)}

FilesAfterRemove(d) ==
    [q \in {f \in DOMAIN files : ~IsUnder(d, f)} |-> files[q]]


\* --------------------------------------------- AtomicEmptyDirPurger.run()
ScanItem(p) == [scan |-> TRUE, path |-> p, empty |-> FALSE]
YieldItem(p, e) == [scan |-> FALSE, path |-> p, empty |-> e]

\* The calls on the tree a run has made that changed it.
Did(r, call, p) == [mutations EXCEPT ![r] = @ \cup {<<call, p>>}]

\* acquire_lock() and release_lock() do nothing on a dry run.
LockAlways(r) == TRUE
LockNeeded(r) == ~dry[r]

\* phase1_rename_empty(): the yielded directory p, listed empty or not, is
\* one to quarantine: not the lock directory, not the root, nothing in it.
IsCandidateLockToo(p, empty) == p # root /\ empty
IsCandidateFresh(p, empty) ==
    p # root /\ p[Len(p)] # lock_name /\ empty /\ ~IsQuarantined(p)
IsCandidate(p, empty) == p # root /\ p[Len(p)] # lock_name /\ empty

\* purger = AtomicEmptyDirPurger(root, dry_run=d); purger.run() is entered.
\* Purgers are taken in the order of their numbers.
Start(r, d) ==
    /\ pc[r] = "idle"
    /\ IF r = 1 THEN TRUE ELSE pc[r - 1] # "idle"
    /\ pc' = [pc EXCEPT ![r] = "acquire"]
    /\ dry' = [dry EXCEPT ![r] = d]
    /\ UNCHANGED <<dirs, files, stack, cur, renamed, deleted, ordered, raised,
                   owner, mutations>>
    /\ UNCHANGED nonPurgeVars

\* acquire_lock(): os.mkdir(lock_dir), FileExistsError -> RuntimeError, which
\* run() lets propagate through its `finally: self.release_lock()`.
AcquireLock(r) ==
    /\ pc[r] = "acquire"
    /\ IF ~LockNeeded(r)
       THEN /\ pc' = [pc EXCEPT ![r] = "phase1"]
            /\ stack' = [stack EXCEPT ![r] = <<ScanItem(root)>>]
            /\ UNCHANGED <<dirs, owner, raised, mutations>>
       ELSE IF lock_dir \in dirs
       THEN /\ raised' = [raised EXCEPT ![r] = "LockExists"]
            /\ pc' = [pc EXCEPT ![r] = "release"]
            /\ UNCHANGED <<dirs, owner, stack, mutations>>
       ELSE /\ dirs' = dirs \cup {lock_dir}
            /\ owner' = r
            /\ mutations' = Did(r, "mkdir", lock_dir)
            /\ pc' = [pc EXCEPT ![r] = "phase1"]
            /\ stack' = [stack EXCEPT ![r] = <<ScanItem(root)>>]
            /\ UNCHANGED raised
    /\ UNCHANGED <<files, dry, cur, renamed, deleted, ordered>>
    /\ UNCHANGED nonPurgeVars

\* acquire_lock(): os.mkdir raises PermissionError -> RuntimeError.
AcquireLockDenied(r) ==
    /\ pc[r] = "acquire"
    /\ ~dry[r]
    /\ lock_dir \notin dirs
    /\ raised' = [raised EXCEPT ![r] = "NoPermission"]
    /\ pc' = [pc EXCEPT ![r] = "release"]
    /\ UNCHANGED <<dirs, files, dry, stack, cur, renamed, deleted, ordered,
                   owner, mutations>>
    /\ UNCHANGED nonPurgeVars

\* os.walk(root, topdown=False), one directory listed: scandir(top) fills
\* dirs/nondirs; (top, dirs, nondirs) is stacked to be yielded after the
\* sub-directories, which are stacked above it.  A directory that cannot be
\* listed any more is dropped (onerror is None).
WalkScan(r) ==
    /\ pc[r] = "phase1"
    /\ stack[r] # << >>
    /\ Head(stack[r]).scan
    /\ LET top == Head(stack[r]).path
           subs == AscendingSeq(ChildDirs(top))
       IN  stack' = [stack EXCEPT ![r] =
                IF top \in dirs
                THEN [i \in 1..Len(subs) |-> ScanItem(subs[i])]
                       \o <<YieldItem(top, Entries(top) = {})>> \o Tail(@)
                ELSE Tail(@)]
    /\ UNCHANGED <<dirs, files, pc, dry, cur, renamed, deleted, ordered,
                   raised, owner, mutations>>
    /\ UNCHANGED nonPurgeVars

\* The loop body without the os.listdir re-check before the rename.
WalkYieldNoRecheck(r) ==
    /\ pc[r] = "phase1"
    /\ stack[r] # << >>
    /\ ~Head(stack[r]).scan
    /\ LET p == Head(stack[r]).path
           candidate == IsCandidate(p, Head(stack[r]).empty)
       IN  /\ stack' = [stack EXCEPT ![r] = Tail(@)]
           /\ IF ~candidate
              THEN UNCHANGED <<pc, cur, renamed>>
              ELSE IF dry[r]
              THEN /\ \E h \in Hex :
                        renamed' = [renamed EXCEPT ![r] =
                                       Append(@, WithPurgeSuffix(p, h))]
                   /\ UNCHANGED <<pc, cur>>
              ELSE /\ pc' = [pc EXCEPT ![r] = "rename"]
                   /\ cur' = [cur EXCEPT ![r] = p]
                   /\ UNCHANGED renamed
    /\ UNCHANGED <<dirs, files, dry, deleted, ordered, raised, owner,
                   mutations>>
    /\ UNCHANGED nonPurgeVars

\* phase1_rename_empty(), the loop body for one yielded directory, up to the
\* re-check (os.listdir) that precedes the rename.
WalkYield(r) ==
    /\ pc[r] = "phase1"
    /\ stack[r] # << >>
    /\ ~Head(stack[r]).scan
    /\ LET p == Head(stack[r]).path
           candidate == IsCandidate(p, Head(stack[r]).empty)
       IN  /\ stack' = [stack EXCEPT ![r] = Tail(@)]
           /\ IF ~candidate
              THEN UNCHANGED <<pc, cur, renamed>>
              ELSE IF dry[r]
              THEN /\ \E h \in Hex :
                        renamed' = [renamed EXCEPT ![r] =
                                       Append(@, WithPurgeSuffix(p, h))]
                   /\ UNCHANGED <<pc, cur>>
              ELSE IF p \in dirs /\ Entries(p) = {}
              THEN /\ pc' = [pc EXCEPT ![r] = "rename"]
                   /\ cur' = [cur EXCEPT ![r] = p]
                   /\ UNCHANGED renamed
              ELSE UNCHANGED <<pc, cur, renamed>>
    /\ UNCHANGED <<dirs, files, dry, deleted, ordered, raised, owner,
                   mutations>>
    /\ UNCHANGED nonPurgeVars

\* os.rename(p, new) and self.renamed.append(new); OSError: skipped.
Rename(r) ==
    /\ pc[r] = "rename"
    /\ \E h \in Hex :
         LET p == cur[r]
             new == WithPurgeSuffix(p, h)
         IN  IF RenameOk(p, new)
             THEN /\ dirs' = DirsAfterRename(p, new)
                  /\ files' = FilesAfterRename(p, new)
                  /\ renamed' = [renamed EXCEPT ![r] = Append(@, new)]
                  /\ mutations' = Did(r, "rename", p)
             ELSE UNCHANGED <<dirs, files, renamed, mutations>>
    /\ pc' = [pc EXCEPT ![r] = "phase1"]
    /\ cur' = [cur EXCEPT ![r] = root]
    /\ UNCHANGED <<dry, stack, deleted, ordered, raised, owner>>
    /\ UNCHANGED nonPurgeVars

\* A failing os.rename that is not caught: the exception leaves run().
RenameFailsAborts(r) ==
    /\ pc[r] = "rename"
    /\ pc' = [pc EXCEPT ![r] = "release"]
    /\ raised' = [raised EXCEPT ![r] = "OSError"]
    /\ cur' = [cur EXCEPT ![r] = root]
    /\ UNCHANGED <<dirs, files, dry, stack, renamed, deleted, ordered, owner,
                   mutations>>
    /\ UNCHANGED nonPurgeVars

\* os.rename raises OSError for a reason outside the model (permissions, a
\* read-only mount): the directory is skipped.
RenameFails(r) ==
    /\ pc[r] = "rename"
    /\ pc' = [pc EXCEPT ![r] = "phase1"]
    /\ cur' = [cur EXCEPT ![r] = root]
    /\ UNCHANGED <<dirs, files, dry, stack, renamed, deleted, ordered, raised,
                   owner, mutations>>
    /\ UNCHANGED nonPurgeVars

\* phase 1 is left while os.walk has directories yet to yield.
Phase1DoneEarly(r) ==
    /\ pc[r] = "phase1"
    /\ pc' = [pc EXCEPT ![r] = "sync"]
    /\ UNCHANGED <<dirs, files, dry, stack, cur, renamed, deleted, ordered,
                   raised, owner, mutations>>
    /\ UNCHANGED nonPurgeVars

\* os.walk is exhausted: phase1_rename_empty() returns.
Phase1Done(r) ==
    /\ pc[r] = "phase1"
    /\ stack[r] = << >>
    /\ pc' = [pc EXCEPT ![r] = "sync"]
    /\ UNCHANGED <<dirs, files, dry, stack, cur, renamed, deleted, ordered,
                   raised, owner, mutations>>
    /\ UNCHANGED nonPurgeVars

\* sync_barriers() (no effect on the tree), then phase2_delete() sorts.
SyncBarriers(r) ==
    /\ pc[r] = "sync"
    /\ pc' = [pc EXCEPT ![r] = "phase2"]
    /\ ordered' = [ordered EXCEPT ![r] = SortedDeepestFirst(renamed[r])]
    /\ UNCHANGED <<dirs, files, dry, stack, cur, renamed, deleted, raised,
                   owner, mutations>>
    /\ UNCHANGED nonPurgeVars

\* phase2_delete(), one d of `ordered`: d.rmdir(), OSError: skipped.  With d
\* empty, as rmdir demands, d alone goes.
Phase2Delete(r) ==
    /\ pc[r] = "phase2"
    /\ ordered[r] # << >>
    /\ LET d == Head(ordered[r])
       IN  IF dry[r]
           THEN /\ deleted' = [deleted EXCEPT ![r] = Append(@, d)]
                /\ UNCHANGED <<dirs, files, mutations>>
           ELSE IF RmdirOk(d)
           THEN /\ dirs' = DirsAfterRemove(d)
                /\ files' = FilesAfterRemove(d)
                /\ deleted' = [deleted EXCEPT ![r] = Append(@, d)]
                /\ mutations' = Did(r, "rmdir", d)
           ELSE UNCHANGED <<dirs, files, deleted, mutations>>
    /\ ordered' = [ordered EXCEPT ![r] = Tail(@)]
    /\ UNCHANGED <<pc, dry, stack, cur, renamed, raised, owner>>
    /\ UNCHANGED nonPurgeVars

\* phase2_delete() returns; final_sync() (no effect on the tree).
FinalSync(r) ==
    /\ pc[r] = "phase2"
    /\ ordered[r] = << >>
    /\ pc' = [pc EXCEPT ![r] = "release"]
    /\ UNCHANGED <<dirs, files, dry, stack, cur, renamed, deleted, ordered,
                   raised, owner, mutations>>
    /\ UNCHANGED nonPurgeVars

\* release_lock(), from run()'s finally: if self.lock_dir.exists():
\* self.lock_dir.rmdir(), every exception swallowed.  Then run() returns
\* (self.renamed, self.deleted) or the pending exception propagates.
ReleaseLock(r) ==
    /\ pc[r] = "release"
    /\ IF LockNeeded(r) /\ RmdirOk(lock_dir)
       THEN /\ dirs' = DirsAfterRemove(lock_dir)
            /\ files' = FilesAfterRemove(lock_dir)
            /\ mutations' = Did(r, "rmdir", lock_dir)
       ELSE UNCHANGED <<dirs, files, mutations>>
    /\ pc' = [pc EXCEPT ![r] = IF raised[r] # "" THEN "failed" ELSE "done"]
    /\ UNCHANGED <<dry, stack, cur, renamed, deleted, ordered, raised, owner>>
    /\ UNCHANGED nonPurgeVars

\* The run is interrupted between phase 1 and phase 2 by an exception
\* (KeyboardInterrupt in sync_barriers): the finally clause still runs.
Interrupt(r) ==
    /\ pc[r] = "sync"
    /\ raised' = [raised EXCEPT ![r] = "Interrupt"]
    /\ pc' = [pc EXCEPT ![r] = "release"]
    /\ UNCHANGED <<dirs, files, dry, stack, cur, renamed, deleted, ordered,
                   owner, mutations>>
    /\ UNCHANGED nonPurgeVars

\* The process is killed between phase 1 and phase 2 (SIGKILL, power loss):
\* nothing more of run() executes.
Kill(r) ==
    /\ pc[r] = "sync"
    /\ pc' = [pc EXCEPT ![r] = "killed"]
    /\ UNCHANGED <<dirs, files, dry, stack, cur, renamed, deleted, ordered,
                   raised, owner, mutations>>
    /\ UNCHANGED nonPurgeVars

\* Another process creates a file in a directory of the tree.
Writer ==
    /\ \E d \in dirs :
         /\ d \o <<WriterFile>> \notin DOMAIN files
         /\ files' = [q \in DOMAIN files \cup {d \o <<WriterFile>>} |->
                         IF q \in DOMAIN files THEN files[q] ELSE 0]
    /\ UNCHANGED <<dirs, pc, dry, stack, cur, renamed, deleted, ordered,
                   raised, owner, mutations>>
    /\ UNCHANGED nonPurgeVars


\* ------------------------------------------------------------ the trees
DirA == <<Nm("a")>>
DirAB == <<Nm("a"), Nm("b")>>
DirC == <<Nm("c")>>
FileCX == <<Nm("c"), Nm("x.txt")>>

\* The trees a purge starts on: any of a/, a/b/, c/ (a/b/ only inside a/),
\* c/x.txt or not, and a lock directory left behind by an earlier run or not.
PurgeTrees ==
    {[d |-> {root} \cup D \cup L, f |-> F] :
        D \in {X \in SUBSET {DirA, DirAB, DirC} : DirAB \in X => DirA \in X},
        L \in {{}, {lock_dir}},
        F \in SUBSET {FileCX}}

InitPurgers ==
    /\ pc = [r \in Runs |-> "idle"]
    /\ dry = [r \in Runs |-> FALSE]
    /\ stack = [r \in Runs |-> << >>]
    /\ cur = [r \in Runs |-> root]
    /\ renamed = [r \in Runs |-> << >>]
    /\ deleted = [r \in Runs |-> << >>]
    /\ ordered = [r \in Runs |-> << >>]
    /\ raised = [r \in Runs |-> ""]
    /\ owner = 0
    /\ mutations = [r \in Runs |-> {}]

\* No scan is set up.
NoScan ==
    /\ directories = << >>
    /\ max_workers = 1
    /\ is_cancelled = FALSE
    /\ spc = "idle"
    /\ rootIdx = 1
    /\ dwalk = << >>
    /\ files_to_hash = << >>
    /\ ntasks = 0
    /\ taskIdx = 1
    /\ inflight = {}
    /\ hashed = {}
    /\ file_hashes = << >>
    /\ file_info = << >>
    /\ result = [empty |-> TRUE, file_info |-> << >>, duplicates |-> << >>]
    /\ emitted = ""
    /\ duplicates_list = << >>

\* No duplicate scan has been made before.
NoFirst == [made |-> FALSE]

\* No deletion is set up.
NoDeletion ==
    /\ items = << >>
    /\ item_type = "file"
    /\ del_cancelled = FALSE
    /\ dpc = "idle"
    /\ dIdx = 1
    /\ deleted_count = 0
    /\ failed_items = << >>

\* delete_empty_dirs has not been called.
NoEmptyDirDeletion ==
    /\ edpc = "idle"
    /\ root_dirs = {}
    /\ iteration = 0
    /\ round_dirs = << >>
    /\ rIdx = 1
    /\ deleted_this_round = 0

\* No call of match_residual_pattern is set up.
NoMatch ==
    /\ self_patterns = << >>
    /\ worker_patterns = << >>
    /\ match_path = << >>
    /\ matched = -1
    /\ residual_files = << >>
    /\ res_log = << >>
    /\ total_scanned = 0
    /\ res_progress = << >>
    /\ all_dirs = << >>
    /\ eIdx = 1
    /\ empty_dirs = << >>

Init ==
    /\ \E t \in PurgeTrees :
         /\ FileCX \in t.f => DirC \in t.d
         /\ dirs = t.d
         /\ files = [q \in t.f |-> 1]
    /\ InitPurgers
    /\ NoScan
    /\ NoDeletion
    /\ first_scan = NoFirst
    /\ stop_requested = FALSE
    /\ NoEmptyDirDeletion
    /\ links = << >>
    /\ unreadable = {}
    /\ NoMatch

\* No run() is in progress.
Quiet == \A q \in Runs : pc[q] \in {"idle", "done", "failed", "killed"}

\* What every run() does once entered, one step of one purger.
RunStep(r) ==
    \/ AcquireLock(r)
    \/ WalkScan(r)
    \/ WalkYield(r)
    \/ Rename(r)
    \/ Phase1Done(r)
    \/ SyncBarriers(r)
    \/ Phase2Delete(r)
    \/ FinalSync(r)
    \/ ReleaseLock(r)

\* Live purges of one root, one after another, each beside a process that
\* writes into the tree; calls may fail and a run may be aborted.
Next ==
    \/ \E r \in 1..MaxSeqRuns : Quiet /\ Start(r, FALSE)
    \/ \E r \in Runs : RunStep(r)
    \/ \E r \in Runs : AcquireLockDenied(r)
    \/ \E r \in Runs : RenameFails(r)
    \/ \E r \in Runs : Interrupt(r)
    \/ \E r \in Runs : Kill(r)
    \/ Writer

Spec == Init /\ [][Next]_vars

\* Purges of one root, dry or live, one after another, and nothing else
\* touches the tree; a run may be aborted between its phases.
NextSeq ==
    \/ \E r \in 1..MaxSeqRuns, d \in BOOLEAN : Quiet /\ Start(r, d)
    \/ \E r \in Runs : RunStep(r)
    \/ \E r \in Runs : Interrupt(r)
    \/ \E r \in Runs : Kill(r)

SpecSeq == Init /\ [][NextSeq]_vars

\* The trees the concurrent purges start on: a/ alone or beside c/x.txt, and
\* a lock directory left behind or not.
ConcTrees ==
    {t \in PurgeTrees : DirA \in t.d /\ DirAB \notin t.d
                        /\ (DirC \in t.d <=> FileCX \in t.f)}

InitConc ==
    /\ \E t \in ConcTrees :
         /\ dirs = t.d
         /\ files = [q \in t.f |-> 1]
    /\ InitPurgers
    /\ NoScan
    /\ NoDeletion
    /\ first_scan = NoFirst
    /\ stop_requested = FALSE
    /\ NoEmptyDirDeletion
    /\ links = << >>
    /\ unreadable = {}
    /\ NoMatch

\* Live purges of one root by any number of processes at once.
NextConc ==
    \/ \E r \in Runs : Start(r, FALSE)
    \/ \E r \in Runs : RunStep(r)

SpecConc == InitConc /\ [][NextConc]_vars


\* ------------------------------------------------- the duplicate scan
\* Largest ScanWorker.max_workers tried.
MaxWorkers == 2

\* The file contents of the model.
Contents == {1, 2}

\* compute_hash_sync: the digest of a file's bytes (distinct contents are
\* taken to have distinct digests).
Digest(c) == [algo |-> "blake3", of |-> c]

\* str.lower() of the Enabled column's values.
Lower(v) ==
    CASE v = "Yes" -> "yes" [] v = "No" -> "no" [] v = "TRUE" -> "true"
      [] OTHER -> v

\* fnmatch(filename, file_pattern), for the globs and names of the model.
FnMatch(name, glob) ==
    CASE glob = "*.DS_Store" -> name.sfx = << >> /\ name.base = ".DS_Store"
      [] glob = "*.txt"      -> name.sfx = << >>
                                   /\ name.base \in {"x.txt", "y.txt"}
      [] glob = "*"          -> TRUE
      [] OTHER               -> name.sfx = << >> /\ name.base = glob

\* self.patterns: the rows of the residual pattern table.
patterns == <<[File_Pattern |-> "*.DS_Store", Enabled |-> "Yes"]>>

\* A row of the table is enabled.
IsEnabled(row) == Lower(row.Enabled) \in {"yes", "true", "1"}

\* The last enabled pattern that matches, instead of the first.
RECURSIVE MatchLastFrom(_, _, _)
MatchLastFrom(filepath, pats, i) ==
    IF i = 0 THEN 0
    ELSE IF IsEnabled(pats[i])
            /\ FnMatch(filepath[Len(filepath)], pats[i].File_Pattern) THEN i
    ELSE MatchLastFrom(filepath, pats, i - 1)

MatchLastWins(filepath, pats) == MatchLastFrom(filepath, pats, Len(pats))

\* The first pattern that matches, enabled or not.
MatchAnyRow(filepath, pats) ==
    IF \E i \in 1..Len(pats) :
           FnMatch(filepath[Len(filepath)], pats[i].File_Pattern)
    THEN CHOOSE i \in 1..Len(pats) :
           /\ FnMatch(filepath[Len(filepath)], pats[i].File_Pattern)
           /\ \A j \in 1..(i - 1) :
                  ~FnMatch(filepath[Len(filepath)], pats[j].File_Pattern)
    ELSE 0

\* match_residual_pattern(filepath, pats): the index in pats of the first
\* enabled pattern that matches filepath.name, 0 for None.
RECURSIVE MatchFrom(_, _, _)
MatchFrom(filepath, pats, i) ==
    IF i > Len(pats) THEN 0
    ELSE IF Lower(pats[i].Enabled) \notin {"yes", "true", "1"}
         THEN MatchFrom(filepath, pats, i + 1)
    ELSE IF FnMatch(filepath[Len(filepath)], pats[i].File_Pattern) THEN i
    ELSE MatchFrom(filepath, pats, i + 1)

match_residual_pattern(filepath, pats) == MatchFrom(filepath, pats, 1)

\* The body of `for filename in files` without the residual-pattern test.
HashableNoSkip(listing) == SelectSeq(listing, ResolvesToFile)

\* scan_for_duplicates, the body of `for filename in files`: the files of one
\* listing that go to files_to_hash, in listing order.
RECURSIVE Hashable(_)
Hashable(listing) ==
    IF listing = << >> THEN << >>
    ELSE IF match_residual_pattern(Head(listing), worker_patterns) # 0
         THEN Hashable(Tail(listing))
    ELSE IF ~ResolvesToFile(Head(listing))
         THEN Hashable(Tail(listing))
    ELSE <<Head(listing)>> \o Hashable(Tail(listing))

\* file_hashes after `file_hashes[h].append(p)` (a new key goes last).
AddFirst(fh, h, p) ==
    IF \E k \in 1..Len(fh) : fh[k].hash = h
    THEN [k \in 1..Len(fh) |->
             IF fh[k].hash = h THEN [fh[k] EXCEPT !.paths = <<p>> \o @]
             ELSE fh[k]]
    ELSE Append(fh, [hash |-> h, paths |-> <<p>>])
AddToGroup(fh, h, p) ==
    IF \E k \in 1..Len(fh) : fh[k].hash = h
    THEN [k \in 1..Len(fh) |->
             IF fh[k].hash = h THEN [fh[k] EXCEPT !.paths = Append(@, p)]
             ELSE fh[k]]
    ELSE Append(fh, [hash |-> h, paths |-> <<p>>])

\* {h: paths for h, paths in file_hashes.items() if len(paths) > 1}
RECURSIVE AllDuplicates(_)
AllDuplicates(fh) ==
    IF fh = << >> THEN << >>
    ELSE IF Len(Head(fh).paths) > 1
         THEN <<Head(fh)>> \o AllDuplicates(Tail(fh))
    ELSE AllDuplicates(Tail(fh))

\* on_duplicate_scan_finished: prefix = "[KEEP]" if i == 0 else "[DELETE]"
\* (i counts from 1 here).
PrefixKeepLast(i, n) == IF i = n THEN "[KEEP]" ELSE "[DELETE]"
Prefix(i, n) == IF i = 1 THEN "[KEEP]" ELSE "[DELETE]"

\* The rows on_duplicate_scan_finished adds for the groups from the g-th on:
\* a header row, then one row per member.
RECURSIVE Rows(_, _)
Rows(dups, g) ==
    IF g > Len(dups) THEN << >>
    ELSE LET paths == dups[g].paths
         IN  <<[group |-> g, text |-> "--- Group", path |-> << >>]>>
             \o [i \in 1..Len(paths) |->
                    [group |-> g, text |-> Prefix(i, Len(paths)),
                     path |-> paths[i]]]
             \o Rows(dups, g + 1)

NoResult == [empty |-> TRUE, file_info |-> << >>, duplicates |-> << >>]

\* scan_for_duplicates returns res; ScanWorker.run goes on.
Return(res) == result' = res /\ spc' = "emit"

\* MainWindow.cancel -> ScanWorker.cancel(), from the GUI thread.
Cancel ==
    /\ spc \in {"collect", "dispatch", "await", "hashing", "group", "emit",
               "res_collect", "res_emit", "emp_root", "emp_walk",
               "emp_check", "emp_emit"}
    /\ ~is_cancelled
    /\ is_cancelled' = TRUE
    /\ UNCHANGED <<directories, max_workers, spc, rootIdx, dwalk,
                   files_to_hash, ntasks, taskIdx, inflight, file_hashes,
                   file_info, result, emitted, duplicates_list>>
    /\ UNCHANGED nonScanVars
    /\ UNCHANGED hashed

\* scan_for_duplicates, `for directory in self.directories`: the next scan
\* root, or the end of the first pass.
CollectRoot ==
    /\ spc = "collect"
    /\ dwalk = << >>
    /\ IF rootIdx > Len(directories)
       THEN /\ IF files_to_hash = << >>
               THEN Return(NoResult)
               ELSE spc' = "dispatch" /\ UNCHANGED result
            /\ UNCHANGED <<rootIdx, dwalk>>
       ELSE IF is_cancelled
       THEN Return(NoResult) /\ UNCHANGED <<rootIdx, dwalk>>
       ELSE /\ rootIdx' = rootIdx + 1
            /\ dwalk' = IF directories[rootIdx] \in dirs
                        THEN <<directories[rootIdx]>> ELSE << >>
            /\ UNCHANGED <<spc, result>>
    /\ UNCHANGED <<directories, max_workers, is_cancelled, files_to_hash,
                   ntasks, taskIdx, inflight, file_hashes, file_info, emitted,
                   duplicates_list>>
    /\ UNCHANGED nonScanVars
    /\ UNCHANGED hashed

\* scan_for_duplicates, one (root, _, files) of os.walk(dir_path): the
\* directory is listed, its files are filtered into files_to_hash and its
\* sub-directories are stacked (top-down walk).
CollectDir ==
    /\ spc = "collect"
    /\ dwalk # << >>
    /\ IF is_cancelled
       THEN Return(NoResult) /\ UNCHANGED <<dwalk, files_to_hash>>
       ELSE LET top == Head(dwalk)
            IN  /\ files_to_hash' = files_to_hash
                       \o Hashable(AscendingSeq(ListedFiles(top)))
                /\ dwalk' = AscendingSeq(ChildDirs(top)) \o Tail(dwalk)
                /\ UNCHANGED <<spc, result>>
    /\ UNCHANGED <<directories, max_workers, is_cancelled, rootIdx, ntasks,
                   taskIdx, inflight, file_hashes, file_info, emitted,
                   duplicates_list>>
    /\ UNCHANGED nonScanVars
    /\ UNCHANGED hashed

\* _hash_files_parallel, the first loop: one coroutine object is made for the
\* next file (nothing is submitted to the pool yet), or the loop ends.
CreateTask ==
    /\ spc = "dispatch"
    /\ IF ntasks < Len(files_to_hash) /\ ~is_cancelled
       THEN ntasks' = ntasks + 1 /\ UNCHANGED spc
       ELSE spc' = "await" /\ UNCHANGED ntasks
    /\ UNCHANGED <<directories, max_workers, is_cancelled, rootIdx, dwalk,
                   files_to_hash, taskIdx, inflight, file_hashes, file_info,
                   result, emitted, duplicates_list>>
    /\ UNCHANGED nonScanVars
    /\ UNCHANGED hashed

\* The second loop without `if self._is_cancelled: ... break`.
AwaitTaskUnchecked ==
    /\ spc = "await"
    /\ IF taskIdx <= ntasks
       THEN /\ Cardinality(inflight) < max_workers
            /\ inflight' = inflight \cup {taskIdx}
            /\ spc' = "hashing"
       ELSE spc' = "group" /\ UNCHANGED inflight
    /\ UNCHANGED <<directories, max_workers, is_cancelled, rootIdx, dwalk,
                   files_to_hash, ntasks, taskIdx, file_hashes, file_info,
                   result, emitted, duplicates_list>>
    /\ UNCHANGED nonScanVars
    /\ UNCHANGED hashed

\* _hash_files_parallel, the second loop: `await task` starts the coroutine,
\* which hands compute_hash_sync to the pool (run_in_executor) and waits; on
\* cancellation, or after the last task, the loop ends and the function
\* returns.
AwaitTask ==
    /\ spc = "await"
    /\ IF taskIdx <= ntasks /\ ~is_cancelled
       THEN /\ Cardinality(inflight) < max_workers
            /\ inflight' = inflight \cup {taskIdx}
            /\ spc' = "hashing"
       ELSE spc' = "group" /\ UNCHANGED inflight
    /\ UNCHANGED <<directories, max_workers, is_cancelled, rootIdx, dwalk,
                   files_to_hash, ntasks, taskIdx, file_hashes, file_info,
                   result, emitted, duplicates_list>>
    /\ UNCHANGED nonScanVars
    /\ UNCHANGED hashed

\* The pool thread returns the digest of task t; the awaiting loop records it
\* in file_info and file_hashes.
HashDone ==
    /\ spc = "hashing"
    /\ \E t \in inflight :
         LET p == files_to_hash[t]
             h == Digest(files[Target(p)])
         IN  /\ ResolvesToFile(p)
             /\ inflight' = inflight \ {t}
             /\ hashed' = hashed \cup {t}
             /\ file_info' = [q \in DOMAIN file_info \cup {p} |->
                                 IF q = p THEN h ELSE file_info[q]]
             /\ file_hashes' = AddToGroup(file_hashes, h, p)
    /\ taskIdx' = taskIdx + 1
    /\ spc' = "await"
    /\ UNCHANGED <<directories, max_workers, is_cancelled, rootIdx, dwalk,
                   files_to_hash, ntasks, result, emitted, duplicates_list>>
    /\ UNCHANGED nonScanVars

\* compute_hash_sync raises (the file cannot be opened or read): logged, and
\* the file is in neither file_info nor file_hashes.
HashFails ==
    /\ spc = "hashing"
    /\ \E t \in inflight : inflight' = inflight \ {t}
    /\ taskIdx' = taskIdx + 1
    /\ spc' = "await"
    /\ UNCHANGED <<directories, max_workers, is_cancelled, rootIdx, dwalk,
                   files_to_hash, ntasks, file_hashes, file_info, result,
                   emitted, duplicates_list>>
    /\ UNCHANGED nonScanVars
    /\ UNCHANGED hashed

\* scan_for_duplicates after the second pass: {} if cancelled, else
\* file_info and the groups of more than one path.
Group ==
    /\ spc = "group"
    /\ IF is_cancelled
       THEN Return(NoResult)
       ELSE Return([empty |-> FALSE, file_info |-> file_info,
                    duplicates |-> AllDuplicates(file_hashes)])
    /\ UNCHANGED <<directories, max_workers, is_cancelled, rootIdx, dwalk,
                   files_to_hash, ntasks, taskIdx, inflight, file_hashes,
                   file_info, emitted, duplicates_list>>
    /\ UNCHANGED nonScanVars
    /\ UNCHANGED hashed

\* ScanWorker.run: signals.finished.emit(result), or emit(None) if cancelled.
Emit ==
    /\ spc = "emit"
    /\ emitted' = IF is_cancelled THEN "None" ELSE "result"
    /\ spc' = "finished"
    /\ UNCHANGED <<directories, max_workers, is_cancelled, rootIdx, dwalk,
                   files_to_hash, ntasks, taskIdx, inflight, file_hashes,
                   file_info, result, duplicates_list>>
    /\ UNCHANGED nonScanVars
    /\ UNCHANGED hashed

\* MainWindow.on_duplicate_scan_finished(result)
OnDuplicateScanFinished ==
    /\ spc = "finished"
    /\ duplicates_list' =
          IF emitted = "None" \/ result.empty THEN duplicates_list
          ELSE duplicates_list \o Rows(result.duplicates, 1)
    /\ spc' = "shown"
    /\ UNCHANGED <<directories, max_workers, is_cancelled, rootIdx, dwalk,
                   files_to_hash, ntasks, taskIdx, inflight, file_hashes,
                   file_info, result, emitted>>
    /\ UNCHANGED nonScanVars
    /\ UNCHANGED hashed

\* The trees a scan runs on: x.txt, a/x.txt and a/y.txt, each there or not
\* and with either content, and a/.DS_Store or not.
FileX == <<Nm("x.txt")>>
FileAX == <<Nm("a"), Nm("x.txt")>>
FileAY == <<Nm("a"), Nm("y.txt")>>
FileADS == <<Nm("a"), Nm(".DS_Store")>>

ScanTrees ==
    {[q \in F |-> c[q]] :
        F \in SUBSET {FileX, FileAX, FileAY, FileADS},
        c \in [{FileX, FileAX, FileAY, FileADS} -> Contents]}

\* The lists of scan roots: add_directory refuses a directory that is in the
\* list already, not one that lies inside (or around) one of the list.
RootLists == {<<root>>, <<DirA>>, <<root, DirA>>, <<DirA, root>>}

\* The pattern table has been loaded (load_residual_patterns) and the
\* ScanWorker made with it; nothing else of the table's is set up.
TableLoaded ==
    /\ self_patterns = patterns
    /\ worker_patterns = patterns
    /\ match_path = << >>
    /\ matched = -1
    /\ residual_files = << >>
    /\ res_log = << >>
    /\ total_scanned = 0
    /\ res_progress = << >>
    /\ all_dirs = << >>
    /\ eIdx = 1
    /\ empty_dirs = << >>

\* MainWindow.scan_duplicates has made the ScanWorker and started it.
InitScan ==
    /\ dirs = {root, DirA}
    /\ files \in ScanTrees
    /\ FileADS \in DOMAIN files => files[FileADS] = 1
    /\ InitPurgers
    /\ NoDeletion
    /\ first_scan = NoFirst
    /\ stop_requested = FALSE
    /\ NoEmptyDirDeletion
    /\ links = << >>
    /\ unreadable = {}
    /\ TableLoaded
    /\ directories \in RootLists
    /\ max_workers \in 1..MaxWorkers
    /\ is_cancelled = FALSE
    /\ spc = "collect"
    /\ rootIdx = 1
    /\ dwalk = << >>
    /\ files_to_hash = << >>
    /\ ntasks = 0
    /\ taskIdx = 1
    /\ inflight = {}
    /\ hashed = {}
    /\ file_hashes = << >>
    /\ file_info = << >>
    /\ result = NoResult
    /\ emitted = ""
    /\ duplicates_list = << >>

\* One duplicate scan of an unchanging tree, which the user may cancel.
NextScan ==
    \/ Cancel
    \/ CollectRoot
    \/ CollectDir
    \/ CreateTask
    \/ AwaitTask
    \/ HashDone
    \/ HashFails
    \/ Group
    \/ Emit
    \/ OnDuplicateScanFinished

SpecScan == InitScan /\ [][NextScan]_vars

\* ------------------------------------------------- the batch deleter
\* Most items a DeletionWorker is given.
MaxItems == 3

\* Path.is_file() and Path.is_dir() of an item.
IsFile(p) == p \in DOMAIN files
IsDir(p) == p \in dirs

\* The files and directories at or below directory p.
FilesBelow(p) == {q \in DOMAIN files : IsUnder(p, q)}
DirsBelow(p) == {q \in dirs : IsUnder(p, q)}

\* A populated directory: it has an entry.
Populated(p) == IsDir(p) /\ Entries(p) # {}

\* The files left once the files of G are gone.
FilesWithout(G) == [q \in DOMAIN files \ G |-> files[q]]

\* MainWindow.stop_operation -> DeletionWorker.cancel(), from the GUI thread.
DelCancel ==
    /\ dpc = "loop"
    /\ ~del_cancelled
    /\ del_cancelled' = TRUE
    /\ UNCHANGED <<items, item_type, dpc, dIdx, deleted_count, failed_items>>
    /\ UNCHANGED <<dirs, files, nonDelVars>>

\* DeletionWorker.run, one turn of the loop without an exception: a file is
\* unlinked, a directory is removed with all it holds (shutil.rmtree), and a
\* path that is neither is passed over.
DeleteItem ==
    /\ dpc = "loop"
    /\ dIdx <= Len(items)
    /\ ~del_cancelled
    /\ LET item == items[dIdx]
       IN  IF IsFile(item)
           THEN /\ files' = FilesWithout({item})
                /\ deleted_count' = deleted_count + 1
                /\ UNCHANGED dirs
           ELSE IF IsDir(item)
           THEN /\ files' = FilesWithout(FilesBelow(item))
                /\ dirs' = dirs \ DirsBelow(item)
                /\ deleted_count' = deleted_count + 1
           ELSE UNCHANGED <<dirs, files, deleted_count>>
    /\ dIdx' = dIdx + 1
    /\ UNCHANGED <<items, item_type, del_cancelled, dpc, failed_items>>
    /\ UNCHANGED nonDelVars

\* DeletionWorker.run, one turn of the loop in which unlink or rmtree raises
\* (rmtree may have removed files of the directory before it raised).
DeleteItemFails ==
    /\ dpc = "loop"
    /\ dIdx <= Len(items)
    /\ ~del_cancelled
    /\ LET item == items[dIdx]
       IN  /\ IsFile(item) \/ IsDir(item)
           /\ IF IsFile(item) THEN UNCHANGED files
              ELSE \E G \in SUBSET FilesBelow(item) : files' = FilesWithout(G)
           /\ failed_items' = Append(failed_items, item)
    /\ dIdx' = dIdx + 1
    /\ UNCHANGED <<dirs, items, item_type, del_cancelled, dpc, deleted_count>>
    /\ UNCHANGED nonDelVars

\* DeletionWorker.run after the loop: the result is emitted.
DelFinish ==
    /\ dpc = "loop"
    /\ dIdx > Len(items) \/ del_cancelled
    /\ dpc' = "finished"
    /\ UNCHANGED <<items, item_type, del_cancelled, dIdx, deleted_count,
                   failed_items>>
    /\ UNCHANGED <<dirs, files, nonDelVars>>

\* The paths a user can have selected for deletion.
Selectable == {DirA, FileX, FileAX, FileAY}

\* The lists of items: up to MaxItems selected paths, in any order; a path
\* can be there twice (the list it was selected in can show it twice).
ItemLists ==
    UNION {[1..n -> Selectable] : n \in 1..MaxItems}

\* A DeletionWorker has been made for the selected items and started.
InitDel ==
    /\ dirs = {root, DirA}
    /\ files \in ScanTrees
    /\ FileADS \notin DOMAIN files
    /\ \A q \in DOMAIN files : files[q] = 1
    /\ InitPurgers
    /\ NoScan
    /\ NoMatch
    /\ first_scan = NoFirst
    /\ stop_requested = FALSE
    /\ NoEmptyDirDeletion
    /\ links = << >>
    /\ unreadable = {}
    /\ items \in ItemLists
    /\ item_type \in {"file", "directory"}
    /\ del_cancelled = FALSE
    /\ dpc = "loop"
    /\ dIdx = 1
    /\ deleted_count = 0
    /\ failed_items = << >>

\* One batch deletion, which the user may cancel.
NextDel ==
    \/ DelCancel
    \/ DeleteItem
    \/ DeleteItemFails
    \/ DelFinish

SpecDel == InitDel /\ [][NextDel]_vars

\* ------------------------------------------------- the pattern table
\* Most rows of a pattern table.
MaxPatterns == 2

\* The globs and the Enabled values of the rows.
Globs == {"*.DS_Store", "*.txt", "*", "a"}
EnabledValues == {"Yes", "No", "TRUE"}

PatternRows == [File_Pattern : Globs, Enabled : EnabledValues]

PatternTables == UNION {[1..n -> PatternRows] : n \in 0..MaxPatterns}

\* The paths match_residual_pattern is called with.
MatchPaths == {DirA, FileX, FileAX, FileADS, <<Nm("a"), Nm("a")>>}

\* The table with its i-th row disabled (the check box is cleared), and with
\* its i-th row deleted.
Disabled(pats, i) == [pats EXCEPT ![i].Enabled = "No"]
Removed(pats, i) ==
    [k \in 1..(Len(pats) - 1) |-> IF k < i THEN pats[k] ELSE pats[k + 1]]

\* save_patterns_from_table: every row is written back with Enabled "Yes" or
\* "No", as its check box says.
Saved(pats) ==
    [k \in 1..Len(pats) |->
        [pats[k] EXCEPT !.Enabled = IF IsEnabled(pats[k]) THEN "Yes" ELSE "No"]]

\* A call match_residual_pattern(match_path, self.patterns).
Match ==
    /\ matched = -1
    /\ match_path # << >>
    /\ matched' = match_residual_pattern(match_path, self_patterns)
    /\ UNCHANGED <<self_patterns, match_path, worker_patterns>>
    /\ UNCHANGED nonMatchVars

\* Saving as a change of the list in place: the rows are written into the
\* list object a running ScanWorker was given.
DisablePatternInPlace ==
    /\ \E i \in 1..Len(self_patterns) :
         /\ IsEnabled(self_patterns[i])
         /\ self_patterns' = Saved(Disabled(self_patterns, i))
    /\ worker_patterns' = self_patterns'
    /\ matched' = -1
    /\ UNCHANGED match_path
    /\ UNCHANGED nonMatchVars

\* The user clears the check box of an enabled row and saves the table.
DisablePattern ==
    /\ \E i \in 1..Len(self_patterns) :
         /\ IsEnabled(self_patterns[i])
         /\ self_patterns' = Saved(Disabled(self_patterns, i))
    /\ matched' = -1
    /\ UNCHANGED <<match_path, worker_patterns>>
    /\ UNCHANGED nonMatchVars

\* delete_pattern_rows, then save: the user deletes a row.
DeletePatternRow ==
    /\ \E i \in 1..Len(self_patterns) :
         self_patterns' = Saved(Removed(self_patterns, i))
    /\ matched' = -1
    /\ UNCHANGED <<match_path, worker_patterns>>
    /\ UNCHANGED nonMatchVars

\* A table has been loaded and a path is to be classified.
InitMatch ==
    /\ dirs = {root, DirA}
    /\ files = << >>
    /\ InitPurgers
    /\ NoScan
    /\ NoDeletion
    /\ first_scan = NoFirst
    /\ stop_requested = FALSE
    /\ NoEmptyDirDeletion
    /\ links = << >>
    /\ unreadable = {}
    /\ self_patterns \in PatternTables
    /\ worker_patterns = << >>
    /\ match_path \in MatchPaths
    /\ matched = -1
    /\ residual_files = << >>
    /\ res_log = << >>
    /\ total_scanned = 0
    /\ res_progress = << >>
    /\ all_dirs = << >>
    /\ eIdx = 1
    /\ empty_dirs = << >>

NextMatch ==
    \/ Match
    \/ DisablePattern
    \/ DeletePatternRow

SpecMatch == InitMatch /\ [][NextMatch]_vars

\* ------------------------------------------------- the residual scan
\* scan_residual_files, the two inner loops: the (path, pattern) pairs of the
\* entries of one listing that match a pattern, in listing order.
RECURSIVE ResidualOf(_, _)
ResidualOf(listing, pats) ==
    IF listing = << >> THEN << >>
    ELSE LET m == match_residual_pattern(Head(listing), pats)
         IN  IF m # 0
             THEN <<[path |-> Head(listing), pattern |-> m]>>
                      \o ResidualOf(Tail(listing), pats)
             ELSE ResidualOf(Tail(listing), pats)

\* scan_residual_files: how many entries it visits between two progress
\* events (`total_scanned % 100 == 0`).
progress_every == 100

\* Progress events at every entry, whatever the count.
ProgressAtEveryEntry(count, n) == [i \in 1..n |-> count + i]

\* scan_residual_files, `total_scanned += 1` and `if total_scanned % 100 ==
\* 0: self.signals.progress.emit(...)` for n entries in a row, count entries
\* having been visited before: the counts of the events emitted.
AtProgress(c) == c % progress_every = 0
ProgressOf(count, n) == SelectSeq([i \in 1..n |-> count + i], AtProgress)

\* scan_residual_files returns res; ScanWorker.run goes on.
ResReturn(res) == residual_files' = res /\ spc' = "res_emit"

\* scan_residual_files, `for directory in self.directories`: the next scan
\* root, or the end of the scan.
ResRoot ==
    /\ spc = "res_collect"
    /\ dwalk = << >>
    /\ IF rootIdx > Len(directories)
       THEN /\ ResReturn(residual_files)
            /\ UNCHANGED <<rootIdx, dwalk, res_log>>
       ELSE IF is_cancelled
       THEN ResReturn(<< >>) /\ UNCHANGED <<rootIdx, dwalk, res_log>>
       ELSE /\ rootIdx' = rootIdx + 1
            /\ IF directories[rootIdx] \in dirs
               THEN /\ dwalk' = <<directories[rootIdx]>>
                    /\ UNCHANGED res_log
               ELSE /\ dwalk' = << >>
                    /\ res_log' = Append(res_log,
                                         [level |-> "Warning",
                                          directory |-> directories[rootIdx]])
            /\ UNCHANGED <<spc, residual_files>>
    /\ UNCHANGED <<directories, max_workers, is_cancelled, files_to_hash,
                   ntasks, taskIdx, inflight, hashed, file_hashes, file_info,
                   result, emitted, duplicates_list>>
    /\ UNCHANGED <<all_dirs, eIdx, empty_dirs, progressVars>>
    /\ UNCHANGED <<fsVars, purgeVars, delVars, matchVars, histVars>>

\* scan_residual_files, one (root, dirs, files) of os.walk(dir_path): the
\* sub-directories, then the files, are matched against the patterns, and
\* the sub-directories are stacked, matched or not. A directory that cannot
\* be listed is passed over by os.walk, which is called without onerror:
\* it yields nothing for it and raises nothing.
ResDir ==
    /\ spc = "res_collect"
    /\ dwalk # << >>
    /\ IF Head(dwalk) \in unreadable
       THEN /\ dwalk' = Tail(dwalk)
            /\ UNCHANGED <<spc, residual_files, progressVars>>
       ELSE IF is_cancelled
       THEN ResReturn(<< >>) /\ UNCHANGED <<dwalk, progressVars>>
       ELSE LET top == Head(dwalk)
                visited == Cardinality(ListedDirs(top))
                              + Cardinality(ListedFiles(top))
            IN  /\ residual_files' = residual_files
                       \o ResidualOf(AscendingSeq(ListedDirs(top)),
                                     worker_patterns)
                       \o ResidualOf(AscendingSeq(ListedFiles(top)),
                                     worker_patterns)
                /\ total_scanned' = total_scanned + visited
                /\ res_progress' = res_progress
                       \o ProgressOf(total_scanned, visited)
                /\ dwalk' = AscendingSeq(ChildDirs(top)) \o Tail(dwalk)
                /\ UNCHANGED spc
    /\ UNCHANGED <<directories, max_workers, is_cancelled, rootIdx,
                   files_to_hash, ntasks, taskIdx, inflight, hashed,
                   file_hashes, file_info, result, emitted, duplicates_list>>
    /\ UNCHANGED <<all_dirs, eIdx, empty_dirs, res_log>>
    /\ UNCHANGED <<fsVars, purgeVars, delVars, matchVars, histVars>>

\* ScanWorker.run: signals.finished.emit(result), or emit(None) if cancelled.
ResEmit ==
    /\ spc = "res_emit"
    /\ emitted' = IF is_cancelled THEN "None" ELSE "result"
    /\ spc' = "res_finished"
    /\ UNCHANGED <<directories, max_workers, is_cancelled, rootIdx, dwalk,
                   files_to_hash, ntasks, taskIdx, inflight, hashed,
                   file_hashes, file_info, result, duplicates_list>>
    /\ UNCHANGED nonScanVars

\* The trees a residual scan runs on: x.txt, a/x.txt, a/.DS_Store, each there
\* or not, and a/a/ or not.
DirAA == <<Nm("a"), Nm("a")>>
ResTrees ==
    {[d |-> {root, DirA} \cup D, f |-> F] :
        D \in SUBSET {DirAA}, F \in SUBSET {FileX, FileAX, FileADS}}

\* MainWindow.scan_residual has made the ScanWorker, with the saved pattern
\* table, and started it.
InitRes ==
    /\ \E t \in ResTrees :
         /\ dirs = t.d
         /\ files = [q \in t.f |-> 1]
    /\ InitPurgers
    /\ NoDeletion
    /\ first_scan = NoFirst
    /\ stop_requested = FALSE
    /\ NoEmptyDirDeletion
    /\ links = << >>
    /\ unreadable = {}
    /\ self_patterns \in {Saved(t) : t \in PatternTables}
    /\ worker_patterns = self_patterns
    /\ match_path = << >>
    /\ matched = -1
    /\ residual_files = << >>
    /\ res_log = << >>
    /\ total_scanned = 0
    /\ res_progress = << >>
    /\ all_dirs = << >>
    /\ eIdx = 1
    /\ empty_dirs = << >>
    /\ directories \in RootLists
    /\ max_workers = 1
    /\ is_cancelled = FALSE
    /\ spc = "res_collect"
    /\ rootIdx = 1
    /\ dwalk = << >>
    /\ files_to_hash = << >>
    /\ ntasks = 0
    /\ taskIdx = 1
    /\ inflight = {}
    /\ hashed = {}
    /\ file_hashes = << >>
    /\ file_info = << >>
    /\ result = NoResult
    /\ emitted = ""
    /\ duplicates_list = << >>

\* One residual scan of an unchanging tree, which the user may cancel.
NextRes ==
    \/ Cancel
    \/ ResRoot
    \/ ResDir
    \/ ResEmit

SpecRes == InitRes /\ [][NextRes]_vars

\* ------------------------------------------------- a second duplicate scan
\* MainWindow.scan_duplicates without `self.duplicates_list.clear()`.
ScanDuplicatesKeepsList ==
    /\ spc = "shown"
    /\ ~first_scan.made
    /\ first_scan' = [made |-> TRUE, result |-> result, hashed |-> hashed,
                      emitted |-> emitted, list |-> duplicates_list]
    /\ is_cancelled' = FALSE
    /\ spc' = "collect"
    /\ rootIdx' = 1
    /\ dwalk' = << >>
    /\ files_to_hash' = << >>
    /\ ntasks' = 0
    /\ taskIdx' = 1
    /\ inflight' = {}
    /\ hashed' = {}
    /\ file_hashes' = << >>
    /\ file_info' = << >>
    /\ result' = NoResult
    /\ emitted' = ""
    /\ UNCHANGED <<directories, max_workers, duplicates_list>>
    /\ worker_patterns' = self_patterns
    /\ UNCHANGED <<self_patterns, match_path, matched>>
    /\ UNCHANGED <<stop_requested, emptyDelVars>>
    /\ UNCHANGED <<fsVars, purgeVars, delVars, resVars>>

\* MainWindow.scan_duplicates, once the scan before has been shown: the list
\* is cleared and a new ScanWorker is made for the same directories and
\* started. What the scan before came to is kept for comparison.
ScanDuplicatesAgain ==
    /\ spc = "shown"
    /\ ~first_scan.made
    /\ first_scan' = [made |-> TRUE, result |-> result, hashed |-> hashed,
                      emitted |-> emitted, list |-> duplicates_list]
    /\ duplicates_list' = << >>
    /\ is_cancelled' = FALSE
    /\ spc' = "collect"
    /\ rootIdx' = 1
    /\ dwalk' = << >>
    /\ files_to_hash' = << >>
    /\ ntasks' = 0
    /\ taskIdx' = 1
    /\ inflight' = {}
    /\ hashed' = {}
    /\ file_hashes' = << >>
    /\ file_info' = << >>
    /\ result' = NoResult
    /\ emitted' = ""
    /\ UNCHANGED <<directories, max_workers>>
    /\ worker_patterns' = self_patterns
    /\ UNCHANGED <<self_patterns, match_path, matched>>
    /\ UNCHANGED <<stop_requested, emptyDelVars>>
    /\ UNCHANGED <<fsVars, purgeVars, delVars, resVars>>

\* The trees the two scans run on: x.txt and a/x.txt with one content, a/y.txt
\* with the same or another, each there or not, and a/.DS_Store or not.
RescanTrees ==
    {t \in ScanTrees :
        /\ FileX \in DOMAIN t => t[FileX] = 1
        /\ FileAX \in DOMAIN t => t[FileAX] = 1
        /\ FileADS \in DOMAIN t => t[FileADS] = 1}

InitRescan ==
    /\ dirs = {root, DirA}
    /\ files \in RescanTrees
    /\ InitPurgers
    /\ NoDeletion
    /\ TableLoaded
    /\ first_scan = NoFirst
    /\ stop_requested = FALSE
    /\ NoEmptyDirDeletion
    /\ links = << >>
    /\ unreadable = {}
    /\ directories \in RootLists
    /\ max_workers = MaxWorkers
    /\ is_cancelled = FALSE
    /\ spc = "collect"
    /\ rootIdx = 1
    /\ dwalk = << >>
    /\ files_to_hash = << >>
    /\ ntasks = 0
    /\ taskIdx = 1
    /\ inflight = {}
    /\ hashed = {}
    /\ file_hashes = << >>
    /\ file_info = << >>
    /\ result = NoResult
    /\ emitted = ""
    /\ duplicates_list = << >>

\* Two duplicate scans of an unchanging tree, one after the other; a file may
\* fail to be read.
NextRescan ==
    \/ CollectRoot
    \/ CollectDir
    \/ CreateTask
    \/ AwaitTask
    \/ HashDone
    \/ HashFails
    \/ Group
    \/ Emit
    \/ OnDuplicateScanFinished
    \/ ScanDuplicatesAgain

SpecRescan == InitRescan /\ [][NextRescan]_vars

\* ------------------------------------------- the empty-directory scan
\* An element of the stack of os.walk(dir_path, topdown=False): a directory
\* still to list, or a listed directory to yield with its sub-directories.
ToList(p) == [scan |-> TRUE, path |-> p, subs |-> << >>]
ToYield(p, subs) == [scan |-> FALSE, path |-> p, subs |-> subs]

\* A directory without sub-directories, empty or not.
IsLeafDir(p) == ResolvesToDir(p) /\ ChildDirs(Target(p)) = {}

\* dir_full_path.exists() and is_dir() and not any(dir_full_path.iterdir())
IsEmptyDir(p) == ResolvesToDir(p) /\ Entries(Target(p)) = {}

\* scan_empty_directories returns res; ScanWorker.run goes on.
EmpReturn(res) == empty_dirs' = res /\ spc' = "emp_emit"

\* scan_empty_directories, `for directory in self.directories`: the next scan
\* root, or the end of the scan.
EmpRoot ==
    /\ spc = "emp_root"
    /\ IF rootIdx > Len(directories)
       THEN EmpReturn(empty_dirs) /\ UNCHANGED <<rootIdx, dwalk, all_dirs>>
       ELSE IF is_cancelled
       THEN EmpReturn(<< >>) /\ UNCHANGED <<rootIdx, dwalk, all_dirs>>
       ELSE /\ rootIdx' = rootIdx + 1
            /\ IF directories[rootIdx] \in dirs
               THEN /\ dwalk' = <<ToList(directories[rootIdx])>>
                    /\ all_dirs' = << >>
                    /\ spc' = "emp_walk"
               ELSE UNCHANGED <<dwalk, all_dirs, spc>>
            /\ UNCHANGED empty_dirs
    /\ UNCHANGED <<directories, max_workers, is_cancelled, files_to_hash,
                   ntasks, taskIdx, inflight, hashed, file_hashes, file_info,
                   result, emitted, duplicates_list>>
    /\ UNCHANGED <<residual_files, eIdx, res_log, progressVars>>
    /\ UNCHANGED <<fsVars, purgeVars, delVars, matchVars, histVars>>

\* scan_empty_directories, the first loop: os.walk lists a directory, or
\* yields a listed one, whose sub-directories then go to all_dirs; after the
\* last, the second loop begins.
EmpWalk ==
    /\ spc = "emp_walk"
    /\ IF dwalk = << >>
       THEN /\ spc' = "emp_check"
            /\ eIdx' = 1
            /\ UNCHANGED <<dwalk, all_dirs, empty_dirs>>
       ELSE LET top == Head(dwalk)
                subs == AscendingSeq(ChildDirs(top.path))
                listed == AscendingSeq(ListedDirs(top.path))
            IN  IF top.scan
                THEN /\ dwalk' = [i \in 1..Len(subs) |-> ToList(subs[i])]
                                    \o <<ToYield(top.path, listed)>>
                                    \o Tail(dwalk)
                     /\ UNCHANGED <<spc, eIdx, all_dirs, empty_dirs>>
                ELSE IF is_cancelled
                THEN EmpReturn(<< >>) /\ UNCHANGED <<dwalk, eIdx, all_dirs>>
                ELSE /\ all_dirs' = all_dirs \o top.subs
                     /\ dwalk' = Tail(dwalk)
                     /\ UNCHANGED <<spc, eIdx, empty_dirs>>
    /\ UNCHANGED <<directories, max_workers, is_cancelled, rootIdx,
                   files_to_hash, ntasks, taskIdx, inflight, hashed,
                   file_hashes, file_info, result, emitted, duplicates_list>>
    /\ UNCHANGED <<residual_files, res_log, progressVars>>
    /\ UNCHANGED <<fsVars, purgeVars, delVars, matchVars, histVars>>

\* scan_empty_directories, the second loop: the next directory of all_dirs
\* is reported if it is empty now; after the last, the next root.
EmpCheck ==
    /\ spc = "emp_check"
    /\ IF eIdx > Len(all_dirs)
       THEN spc' = "emp_root" /\ UNCHANGED <<eIdx, empty_dirs>>
       ELSE IF is_cancelled
       THEN EmpReturn(<< >>) /\ UNCHANGED eIdx
       ELSE /\ empty_dirs' = IF IsEmptyDir(all_dirs[eIdx])
                             THEN Append(empty_dirs, all_dirs[eIdx])
                             ELSE empty_dirs
            /\ eIdx' = eIdx + 1
            /\ UNCHANGED spc
    /\ UNCHANGED <<directories, max_workers, is_cancelled, rootIdx, dwalk,
                   files_to_hash, ntasks, taskIdx, inflight, hashed,
                   file_hashes, file_info, result, emitted, duplicates_list>>
    /\ UNCHANGED <<residual_files, all_dirs, res_log, progressVars>>
    /\ UNCHANGED <<fsVars, purgeVars, delVars, matchVars, histVars>>

\* ScanWorker.run: signals.finished.emit(result), or emit(None) if cancelled.
EmpEmit ==
    /\ spc = "emp_emit"
    /\ emitted' = IF is_cancelled THEN "None" ELSE "result"
    /\ spc' = "emp_finished"
    /\ UNCHANGED <<directories, max_workers, is_cancelled, rootIdx, dwalk,
                   files_to_hash, ntasks, taskIdx, inflight, hashed,
                   file_hashes, file_info, result, duplicates_list>>
    /\ UNCHANGED nonScanVars

\* ------------------------------------------------- the example tree
\* a/ (empty), b/x.txt, c/b_copy/y.txt with the bytes of x.txt, d/.DS_Store.
DirB == <<Nm("b")>>
FileBX == <<Nm("b"), Nm("x.txt")>>
DirCB == <<Nm("c"), Nm("b_copy")>>
FileCBY == <<Nm("c"), Nm("b_copy"), Nm("y.txt")>>
DirD == <<Nm("d")>>
FileDDS == <<Nm("d"), Nm(".DS_Store")>>

\* MainWindow.scan_residual_files, once the duplicate scan has been shown: a
\* new ScanWorker for the same directories, with the pattern table.
ScanResidualFiles ==
    /\ spc = "shown"
    /\ is_cancelled' = FALSE
    /\ spc' = "res_collect"
    /\ rootIdx' = 1
    /\ dwalk' = << >>
    /\ emitted' = ""
    /\ residual_files' = << >>
    /\ res_log' = << >>
    /\ total_scanned' = 0
    /\ res_progress' = << >>
    /\ worker_patterns' = self_patterns
    /\ UNCHANGED <<self_patterns, match_path, matched>>
    /\ UNCHANGED <<directories, max_workers, files_to_hash, ntasks, taskIdx,
                   inflight, hashed, file_hashes, file_info, result,
                   duplicates_list>>
    /\ UNCHANGED <<all_dirs, eIdx, empty_dirs>>
    /\ UNCHANGED <<fsVars, purgeVars, delVars, histVars>>

\* MainWindow.scan_empty_dirs, once the residual scan has finished: a new
\* ScanWorker for the same directories.
ScanEmptyDirs ==
    /\ spc = "res_finished"
    /\ is_cancelled' = FALSE
    /\ spc' = "emp_root"
    /\ rootIdx' = 1
    /\ dwalk' = << >>
    /\ emitted' = ""
    /\ all_dirs' = << >>
    /\ eIdx' = 1
    /\ empty_dirs' = << >>
    /\ worker_patterns' = << >>
    /\ UNCHANGED <<self_patterns, match_path, matched>>
    /\ UNCHANGED <<directories, max_workers, files_to_hash, ntasks, taskIdx,
                   inflight, hashed, file_hashes, file_info, result,
                   duplicates_list>>
    /\ UNCHANGED <<residual_files, res_log, progressVars>>
    /\ UNCHANGED <<fsVars, purgeVars, delVars, histVars>>

\* The example tree, one scan root, the pattern *.DS_Store enabled, and the
\* duplicate scan started.
InitExample ==
    /\ dirs = {root, DirA, DirB, DirC, DirCB, DirD}
    /\ files = [q \in {FileBX, FileCBY, FileDDS} |->
                   IF q = FileDDS THEN 2 ELSE 1]
    /\ InitPurgers
    /\ NoDeletion
    /\ first_scan = NoFirst
    /\ stop_requested = FALSE
    /\ NoEmptyDirDeletion
    /\ links = << >>
    /\ unreadable = {}
    /\ self_patterns = patterns
    /\ worker_patterns = patterns
    /\ match_path = << >>
    /\ matched = -1
    /\ residual_files = << >>
    /\ res_log = << >>
    /\ total_scanned = 0
    /\ res_progress = << >>
    /\ all_dirs = << >>
    /\ eIdx = 1
    /\ empty_dirs = << >>
    /\ directories = <<root>>
    /\ max_workers = MaxWorkers
    /\ is_cancelled = FALSE
    /\ spc = "collect"
    /\ rootIdx = 1
    /\ dwalk = << >>
    /\ files_to_hash = << >>
    /\ ntasks = 0
    /\ taskIdx = 1
    /\ inflight = {}
    /\ hashed = {}
    /\ file_hashes = << >>
    /\ file_info = << >>
    /\ result = NoResult
    /\ emitted = ""
    /\ duplicates_list = << >>

\* The three scans of the example tree, one after the other, and beside them
\* one dry-run purge of it.
NextExample ==
    \/ CollectRoot
    \/ CollectDir
    \/ CreateTask
    \/ AwaitTask
    \/ HashDone
    \/ Group
    \/ Emit
    \/ OnDuplicateScanFinished
    \/ ScanResidualFiles
    \/ ResRoot
    \/ ResDir
    \/ ResEmit
    \/ ScanEmptyDirs
    \/ EmpRoot
    \/ EmpWalk
    \/ EmpCheck
    \/ EmpEmit
    \/ Start(1, TRUE)
    \/ AcquireLock(1)
    \/ WalkScan(1)
    \/ WalkYield(1)
    \/ Phase1Done(1)
    \/ SyncBarriers(1)
    \/ Phase2Delete(1)
    \/ FinalSync(1)
    \/ ReleaseLock(1)

SpecExample == InitExample /\ [][NextExample]_vars

\* ------------------------------------------------- scans of a tree with links
\* The links of the model: y.txt -> x.txt and a/y.txt -> x.txt (links to a
\* regular file), b -> a (a link to a directory), c -> d (d does not exist).
LinkY == <<Nm("y.txt")>>
LinkAY == <<Nm("a"), Nm("y.txt")>>
LinkB == <<Nm("b")>>
LinkC == <<Nm("c")>>
LinkTarget(q) ==
    CASE q = LinkY -> FileX
      [] q = LinkAY -> FileX
      [] q = LinkB -> DirA
      [] OTHER -> DirD

LinkSets ==
    {[q \in L |-> LinkTarget(q)] : L \in SUBSET {LinkY, LinkAY, LinkB, LinkC}}

\* A ScanWorker has been made for the one scan root and started, for a
\* duplicate scan or for an empty-directory scan; the tree has a/, x.txt and
\* a/x.txt, each file there or not, and any of the links.
InitLinks ==
    /\ dirs = {root, DirA}
    /\ \E F \in SUBSET {FileX, FileAX} : files = [q \in F |-> 1]
    /\ InitPurgers
    /\ NoDeletion
    /\ first_scan = NoFirst
    /\ stop_requested = FALSE
    /\ NoEmptyDirDeletion
    /\ links \in LinkSets
    /\ unreadable = {}
    /\ TableLoaded
    /\ directories = <<root>>
    /\ max_workers \in 1..MaxWorkers
    /\ is_cancelled = FALSE
    /\ spc \in {"collect", "emp_root"}
    /\ rootIdx = 1
    /\ dwalk = << >>
    /\ files_to_hash = << >>
    /\ ntasks = 0
    /\ taskIdx = 1
    /\ inflight = {}
    /\ hashed = {}
    /\ file_hashes = << >>
    /\ file_info = << >>
    /\ result = NoResult
    /\ emitted = ""
    /\ duplicates_list = << >>

\* One duplicate scan, or one empty-directory scan, of an unchanging tree.
NextLinks ==
    \/ CollectRoot
    \/ CollectDir
    \/ CreateTask
    \/ AwaitTask
    \/ HashDone
    \/ Group
    \/ Emit
    \/ OnDuplicateScanFinished
    \/ EmpRoot
    \/ EmpWalk
    \/ EmpCheck
    \/ EmpEmit

SpecLinks == InitLinks /\ [][NextLinks]_vars

\* ------------------------------ the residual scan, unreadable directories
\* The pattern table of these scans: *.DS_Store and *.txt, both enabled.
ErrPatterns ==
    <<[File_Pattern |-> "*.DS_Store", Enabled |-> "Yes"],
      [File_Pattern |-> "*.txt", Enabled |-> "Yes"]>>

\* The lists of scan roots: the root, a/, or the root and b/, which does not
\* exist.
ErrRootLists == {<<root>>, <<DirA>>, <<root, DirB>>}

\* MainWindow.scan_residual_files has made the ScanWorker and started it; the
\* tree is one of ResTrees, and the root, a/ and a/a/ may each be unreadable.
InitResErr ==
    /\ \E t \in ResTrees :
         /\ dirs = t.d
         /\ files = [q \in t.f |-> 1]
         /\ unreadable \in SUBSET t.d
    /\ links = << >>
    /\ InitPurgers
    /\ NoDeletion
    /\ first_scan = NoFirst
    /\ stop_requested = FALSE
    /\ NoEmptyDirDeletion
    /\ self_patterns = ErrPatterns
    /\ worker_patterns = ErrPatterns
    /\ match_path = << >>
    /\ matched = -1
    /\ residual_files = << >>
    /\ res_log = << >>
    /\ total_scanned = 0
    /\ res_progress = << >>
    /\ all_dirs = << >>
    /\ eIdx = 1
    /\ empty_dirs = << >>
    /\ directories \in ErrRootLists
    /\ max_workers = 1
    /\ is_cancelled = FALSE
    /\ spc = "res_collect"
    /\ rootIdx = 1
    /\ dwalk = << >>
    /\ files_to_hash = << >>
    /\ ntasks = 0
    /\ taskIdx = 1
    /\ inflight = {}
    /\ hashed = {}
    /\ file_hashes = << >>
    /\ file_info = << >>
    /\ result = NoResult
    /\ emitted = ""
    /\ duplicates_list = << >>

\* One residual scan of an unchanging tree.
NextResErr ==
    \/ ResRoot
    \/ ResDir
    \/ ResEmit

SpecResErr == InitResErr /\ [][NextResErr]_vars

\* ------------------------------------------------- one live purge
\* One live purge beside a process that writes into the tree; a rename may
\* fail.
NextLive ==
    \/ Start(1, FALSE)
    \/ RunStep(1)
    \/ RenameFails(1)
    \/ Writer

SpecLive == Init /\ [][NextLive]_vars

\* ------------------------------------------------- the order of phase 2
\* The trees: any of a/, a.purge.1/ (left in quarantine by an earlier run),
\* c/ and c/d/ (only inside c/), all empty but for one another.
StaleA == WithPurgeSuffix(DirA, 1)
DirCD == <<Nm("c"), Nm("d")>>
OrderTrees ==
    {{root} \cup D :
        D \in {X \in SUBSET {DirA, StaleA, DirC, DirCD} :
                  DirCD \in X => DirC \in X}}

InitOrder ==
    /\ dirs \in OrderTrees
    /\ files = << >>
    /\ InitPurgers
    /\ NoScan
    /\ NoDeletion
    /\ first_scan = NoFirst
    /\ stop_requested = FALSE
    /\ NoEmptyDirDeletion
    /\ links = << >>
    /\ unreadable = {}
    /\ NoMatch

\* One purge, dry or live, and nothing else touches the tree.
NextOrder ==
    \/ \E d \in BOOLEAN : Start(1, d)
    \/ RunStep(1)

SpecOrder == InitOrder /\ [][NextOrder]_vars

\* ------------------------------------------------- stopping a purge
\* MainWindow.stop_operation while a purge runs: it cancels the scan worker
\* and the deletion worker if they run; AtomicEmptyDirPurger takes no
\* cancellation flag and run() reads none, so nothing of the run changes.
StopOperation ==
    /\ ~stop_requested
    /\ \E r \in Runs : pc[r] \in {"phase1", "rename", "sync", "phase2"}
    /\ stop_requested' = TRUE
    /\ UNCHANGED <<first_scan, emptyDelVars>>
    /\ UNCHANGED <<fsVars, purgeVars, scanVars, delVars, matchVars, resVars>>

\* One live purge, which the user may ask to stop.
NextStop ==
    \/ Start(1, FALSE)
    \/ RunStep(1)
    \/ StopOperation

SpecStop == Init /\ [][NextStop]_vars

\* ------------------------------------------------- purges run again
\* Deepest chain of nested empty directories tried.
MaxDepth == 2

\* a/, a/a/, ...: the directory n levels below the root.
RECURSIVE ChainPath(_)
ChainPath(n) == IF n = 0 THEN root ELSE Append(ChainPath(n - 1), Nm("a"))

\* A chain of n nested directories and nothing else in them; its deepest
\* directory has the name `last`.
ChainDirs(n, last) ==
    {ChainPath(k) : k \in 1..(n - 1)} \cup {Append(ChainPath(n - 1), last)}

\* The trees: a chain of 1..MaxDepth nested empty directories, the deepest
\* named "a" or (below the first level) like a lock directory, as a purge of
\* that sub-directory leaves one when it is killed; beside it c/ or not,
\* empty or holding x.txt.
ChainTrees ==
    {[d |-> {root} \cup ChainDirs(n, last) \cup C, f |-> F,
      chain |-> ChainDirs(n, last), depth |-> n] :
        n \in 1..MaxDepth, last \in {Nm("a"), lock_name},
        C \in SUBSET {DirC}, F \in SUBSET {FileCX}}

InitChain ==
    /\ \E t \in ChainTrees :
         /\ FileCX \in t.f => DirC \in t.d
         /\ lock_dir \notin t.d
         /\ t.depth < NumRuns
         /\ dirs = t.d
         /\ files = [q \in t.f |-> 1]
    /\ InitPurgers
    /\ NoScan
    /\ NoDeletion
    /\ first_scan = NoFirst
    /\ stop_requested = FALSE
    /\ NoEmptyDirDeletion
    /\ links = << >>
    /\ unreadable = {}
    /\ NoMatch

\* Live purges of one root, one after another; nothing else touches the tree
\* and no call fails.
NextChain ==
    \/ \E r \in Runs : Quiet /\ Start(r, FALSE)
    \/ \E r \in Runs : RunStep(r)

SpecChain == InitChain /\ [][NextChain]_vars

\* --------------------------------- the pattern table edited during a scan
\* The pattern tables of these scans: up to MaxPatterns rows of *.DS_Store
\* and *.txt, enabled or not.
SnapTables ==
    UNION {[1..n -> [File_Pattern : {"*.DS_Store", "*.txt"},
                     Enabled : {"Yes", "No"}]] : n \in 0..MaxPatterns}

\* What the patterns file may hold when it is read again: nothing, or
\* *.DS_Store and *.txt both enabled.
PatternsFile == {<< >>, ErrPatterns}

\* MainWindow.reload_patterns: self.patterns becomes the new list that
\* load_residual_patterns() makes of the rows in the patterns file.
ReloadPatterns ==
    /\ \E t \in PatternsFile : self_patterns' = t
    /\ UNCHANGED <<match_path, matched, worker_patterns>>
    /\ UNCHANGED nonMatchVars

\* MainWindow.scan_residual_files has made the ScanWorker with
\* patterns=self.patterns and started it.
InitSnap ==
    /\ \E t \in ResTrees :
         /\ dirs = t.d
         /\ files = [q \in t.f |-> 1]
    /\ InitPurgers
    /\ NoDeletion
    /\ first_scan = NoFirst
    /\ stop_requested = FALSE
    /\ NoEmptyDirDeletion
    /\ links = << >>
    /\ unreadable = {}
    /\ self_patterns \in SnapTables
    /\ worker_patterns = self_patterns
    /\ match_path = << >>
    /\ matched = -1
    /\ residual_files = << >>
    /\ res_log = << >>
    /\ total_scanned = 0
    /\ res_progress = << >>
    /\ all_dirs = << >>
    /\ eIdx = 1
    /\ empty_dirs = << >>
    /\ directories = <<root>>
    /\ max_workers = 1
    /\ is_cancelled = FALSE
    /\ spc = "res_collect"
    /\ rootIdx = 1
    /\ dwalk = << >>
    /\ files_to_hash = << >>
    /\ ntasks = 0
    /\ taskIdx = 1
    /\ inflight = {}
    /\ hashed = {}
    /\ file_hashes = << >>
    /\ file_info = << >>
    /\ result = NoResult
    /\ emitted = ""
    /\ duplicates_list = << >>

\* One residual scan, while the user saves the pattern table with a row
\* disabled or deleted, or reloads it.
NextSnap ==
    \/ ResRoot
    \/ ResDir
    \/ ResEmit
    \/ DisablePattern
    \/ DeletePatternRow
    \/ ReloadPatterns

SpecSnap == InitSnap /\ [][NextSnap]_vars

\* ------------------------------ the duplicate scan, names that match
\* The pattern tables of these scans: up to MaxPatterns rows of the globs
\* "a" (the name of the directory a/), *.DS_Store and *.txt, enabled or not.
ExclTables ==
    UNION {[1..n -> [File_Pattern : {"a", "*.DS_Store", "*.txt"},
                     Enabled : {"Yes", "No"}]] : n \in 1..MaxPatterns}

\* MainWindow.scan_duplicates has made the ScanWorker with
\* patterns=self.patterns and started it on the root.
InitExcl ==
    /\ dirs = {root, DirA}
    /\ files \in RescanTrees
    /\ InitPurgers
    /\ NoDeletion
    /\ first_scan = NoFirst
    /\ stop_requested = FALSE
    /\ NoEmptyDirDeletion
    /\ links = << >>
    /\ unreadable = {}
    /\ self_patterns \in ExclTables
    /\ worker_patterns = self_patterns
    /\ match_path = << >>
    /\ matched = -1
    /\ residual_files = << >>
    /\ res_log = << >>
    /\ total_scanned = 0
    /\ res_progress = << >>
    /\ all_dirs = << >>
    /\ eIdx = 1
    /\ empty_dirs = << >>
    /\ directories = <<root>>
    /\ max_workers = MaxWorkers
    /\ is_cancelled = FALSE
    /\ spc = "collect"
    /\ rootIdx = 1
    /\ dwalk = << >>
    /\ files_to_hash = << >>
    /\ ntasks = 0
    /\ taskIdx = 1
    /\ inflight = {}
    /\ hashed = {}
    /\ file_hashes = << >>
    /\ file_info = << >>
    /\ result = NoResult
    /\ emitted = ""
    /\ duplicates_list = << >>

\* One duplicate scan of an unchanging tree, every file readable.
NextExcl ==
    \/ CollectRoot
    \/ CollectDir
    \/ CreateTask
    \/ AwaitTask
    \/ HashDone
    \/ Group
    \/ Emit
    \/ OnDuplicateScanFinished

SpecExcl == InitExcl /\ [][NextExcl]_vars

\* ------------------------------------ deletions confirmed in the window
\* The paths of the selected rows that are not group headers, in row order
\* (the text of a row is "  [KEEP] <path>" or "  [DELETE] <path>"; the prefix
\* is cut off at the first "] " and the rest stripped of surrounding blanks,
\* of which the names of the model have none).
RECURSIVE ItemsToDelete(_, _, _)
ItemsToDelete(rows, sel, i) ==
    IF i > Len(rows) THEN << >>
    ELSE IF i \in sel /\ rows[i].text # "--- Group"
         THEN <<rows[i].path>> \o ItemsToDelete(rows, sel, i + 1)
    ELSE ItemsToDelete(rows, sel, i + 1)

\* The paths of the selected rows of the residual list (the text of a row
\* is "<path>  [Pattern: ...]", cut at "[Pattern:").
RECURSIVE ResidualItems(_, _, _)
ResidualItems(found, sel, i) ==
    IF i > Len(found) THEN << >>
    ELSE IF i \in sel
         THEN <<found[i].path>> \o ResidualItems(found, sel, i + 1)
    ELSE ResidualItems(found, sel, i + 1)

\* A DeletionWorker is made for the items: DeletionWorker(items_to_delete).
NewDeletionWorker(its) ==
    /\ items' = its
    /\ item_type' = "file"
    /\ del_cancelled' = FALSE
    /\ dIdx' = 1
    /\ deleted_count' = 0
    /\ failed_items' = << >>

\* MainWindow.delete_duplicates, with rows of the duplicates list selected
\* and the dialog confirmed, while no deletion is running (the handler does
\* not test that; the user is taken to wait): the progress bar is shown, the
\* stop button enabled, a DeletionWorker is made and its signals are
\* connected. The handler ends there: it does not call
\* deletion_worker.start().
DeleteDuplicates ==
    /\ spc \in {"shown", "res_collect", "res_emit", "res_finished"}
    /\ dpc \in {"idle", "created", "reset"}
    /\ \E sel \in SUBSET (1..Len(duplicates_list)) :
         /\ sel # {}
         /\ ItemsToDelete(duplicates_list, sel, 1) # << >>
         /\ NewDeletionWorker(ItemsToDelete(duplicates_list, sel, 1))
    /\ dpc' = "created"
    /\ UNCHANGED <<dirs, files, nonDelVars>>

\* MainWindow.delete_residual_files, with rows of the residual list selected
\* and the dialog confirmed: the same, and the worker is started.
DeleteResidualFiles ==
    /\ spc = "res_finished"
    /\ emitted = "result"
    /\ dpc \in {"idle", "created", "reset"}
    /\ \E sel \in SUBSET (1..Len(residual_files)) :
         /\ sel # {}
         /\ NewDeletionWorker(ResidualItems(residual_files, sel, 1))
    /\ dpc' = "loop"
    /\ UNCHANGED <<dirs, files, nonDelVars>>

\* MainWindow.on_deletion_finished(result): the progress bar is hidden and
\* the stop button disabled.
OnDeletionFinished ==
    /\ dpc = "finished"
    /\ dpc' = "reset"
    /\ UNCHANGED <<items, item_type, del_cancelled, dIdx, deleted_count,
                   failed_items>>
    /\ UNCHANGED <<dirs, files, nonDelVars>>

\* The progress bar is visible and the stop button enabled.
ProgressShown == dpc \in {"created", "loop", "finished"}

\* What the threads of the program do on their own: the steps of
\* DeletionWorker.run once started, and the delivery of its signal.
DeletionRuns == DeleteItem \/ DeleteItemFails \/ DelFinish

\* MainWindow.scan_duplicates has made the ScanWorker for the one scan root
\* and started it.
InitConfirm == InitRescan /\ directories = <<root>>

\* The duplicate scan and the residual scan of the tree, and then deletions
\* the user selects and confirms in either list.
NextConfirm ==
    \/ CollectRoot
    \/ CollectDir
    \/ CreateTask
    \/ AwaitTask
    \/ HashDone
    \/ Group
    \/ Emit
    \/ OnDuplicateScanFinished
    \/ ScanResidualFiles
    \/ ResRoot
    \/ ResDir
    \/ ResEmit
    \/ DeleteDuplicates
    \/ DeleteResidualFiles
    \/ DeleteItem
    \/ DeleteItemFails
    \/ DelFinish
    \/ OnDeletionFinished

SpecConfirm ==
    /\ InitConfirm
    /\ [][NextConfirm]_vars
    /\ WF_vars(DeletionRuns)
    /\ WF_vars(OnDeletionFinished)

\* ------------------------------------ the losers of a scan are deleted
\* Every member of every group but its first, the one shown as [KEEP], in
\* the order of the list.
RECURSIVE Losers(_)
Losers(dups) ==
    IF dups = << >> THEN << >>
    ELSE Tail(Head(dups).paths) \o Losers(Tail(dups))

\* The groups of a finished scan are at hand: a DeletionWorker is made for
\* all their members but the first of each, and started.
DeleteLosers ==
    /\ spc = "shown"
    /\ dpc = "idle"
    /\ ~result.empty
    /\ Losers(result.duplicates) # << >>
    /\ NewDeletionWorker(Losers(result.duplicates))
    /\ dpc' = "loop"
    /\ UNCHANGED <<dirs, files, nonDelVars>>

\* One duplicate scan of an unchanging tree, every file readable, and then
\* the deletion of the losers, every removal succeeding.
NextKeep ==
    \/ CollectRoot
    \/ CollectDir
    \/ CreateTask
    \/ AwaitTask
    \/ HashDone
    \/ Group
    \/ Emit
    \/ OnDuplicateScanFinished
    \/ DeleteLosers
    \/ DeleteItem
    \/ DelFinish

SpecKeep == InitRescan /\ [][NextKeep]_vars

\* ------------------------- empty directories deleted from the window
\* MainWindow.on_empty_dirs_scan_finished with a result: the directories found
\* are listed in the window. (With None the list stays empty and nothing can
\* be selected.)
OnEmptyDirsScanFinished ==
    /\ spc = "emp_finished"
    /\ emitted = "result"
    /\ spc' = "emp_shown"
    /\ UNCHANGED <<directories, max_workers, is_cancelled, rootIdx, dwalk,
                   files_to_hash, ntasks, taskIdx, inflight, hashed,
                   file_hashes, file_info, result, emitted, duplicates_list>>
    /\ UNCHANGED nonScanVars

\* delete_empty_dirs: max_iterations
max_iterations == 100

\* What delete_empty_dirs leaves alone besides the tree.
nonEmptyDelVars == <<purgeVars, scanVars, delVars, matchVars, resVars,
                     first_scan, stop_requested, links, unreadable>>

\* delete_empty_dirs, `for scan_dir in self.directories`: the scan
\* directories that item_path.relative_to(scan_path) accepts, and the first
\* of them, the one the loop stops at.
ScanDirsOf(item) ==
    {i \in 1..Len(directories) : IsUnder(directories[i], item)}
FirstScanDir(item) ==
    directories[CHOOSE i \in ScanDirsOf(item) :
                    \A j \in ScanDirsOf(item) : i <= j]

\* delete_empty_dirs: root_dirs for the selected items.
RootDirsOf(sel) == {FirstScanDir(item) : item \in {i \in sel : ScanDirsOf(i) # {}}}

\* os.walk(root_dir, topdown=False): the directories it yields, root_dir and
\* every directory below it that it can reach by listing.
Walked(root_dir) ==
    {q \in DirsBelow(root_dir) :
        \A k \in Len(root_dir)..(Len(q) - 1) : SubSeq(q, 1, k) \notin unreadable}

\* One round's scan under one root: the walked directories that are not in
\* root_dirs and are empty now, in the order of the walk's listings.
EmptyUnder(root_dir, roots) ==
    AscendingSeq({q \in Walked(root_dir) :
                    /\ q \notin roots
                    /\ q \notin unreadable
                    /\ Entries(q) = {}})

\* One round's scan, `for root_dir in root_dirs`, over the roots in the order
\* of rs.
RECURSIVE RoundScan(_, _)
RoundScan(rs, roots) ==
    IF rs = << >> THEN << >>
    ELSE EmptyUnder(Head(rs), roots) \o RoundScan(Tail(rs), roots)

\* empty_dirs.sort(key=lambda p: len(p.parts), reverse=True): the deepest
\* first, directories of one depth in the order they had.
RECURSIVE InsertByDepth(_, _)
InsertByDepth(p, s) ==
    IF s = << >> THEN <<p>>
    ELSE IF Len(p) > Len(Head(s)) THEN <<p>> \o s
    ELSE <<Head(s)>> \o InsertByDepth(p, Tail(s))

RECURSIVE DeepestFirst(_)
DeepestFirst(s) ==
    IF s = << >> THEN << >>
    ELSE InsertByDepth(s[Len(s)], DeepestFirst(SubSeq(s, 1, Len(s) - 1)))

\* delete_empty_dirs up to the loop: some listed directories are selected and
\* the question is answered with Yes; root_dirs is worked out.
DeleteEmptyDirs ==
    /\ spc = "emp_shown"
    /\ edpc \in {"idle", "done"}
    /\ \E sel \in SUBSET Range(empty_dirs) :
         /\ sel # {}
         /\ root_dirs' = RootDirsOf(sel)
    /\ iteration' = 0
    /\ round_dirs' = << >>
    /\ rIdx' = 1
    /\ deleted_this_round' = 0
    /\ edpc' = "scan"
    /\ UNCHANGED <<dirs, files, nonEmptyDelVars>>

\* delete_empty_dirs, the head of a round: `while iteration < max_iterations`,
\* the scan of the round under every root of root_dirs, `if not empty_dirs:
\* break`, and the sort. The scan changes nothing in the tree.
EdScan ==
    /\ edpc = "scan"
    /\ IF iteration >= max_iterations
       THEN /\ edpc' = "report"
            /\ UNCHANGED <<iteration, round_dirs, rIdx, deleted_this_round>>
       ELSE LET found == RoundScan(AscendingSeq(root_dirs), root_dirs)
            IN  /\ iteration' = iteration + 1
                /\ round_dirs' = DeepestFirst(found)
                /\ rIdx' = 1
                /\ deleted_this_round' = 0
                /\ edpc' = IF found = << >> THEN "report" ELSE "check"
    /\ UNCHANGED root_dirs
    /\ UNCHANGED <<dirs, files, nonEmptyDelVars>>

\* delete_empty_dirs, the deleting loop at one directory: exists(), is_dir()
\* and `not any(dir_path.iterdir())`; after the last directory, `if
\* deleted_this_round == 0: break` or the next round.
EdCheck ==
    /\ edpc = "check"
    /\ IF rIdx > Len(round_dirs)
       THEN /\ edpc' = IF deleted_this_round = 0 THEN "report" ELSE "scan"
            /\ UNCHANGED rIdx
       ELSE LET dir_path == round_dirs[rIdx]
            IN  IF /\ dir_path \in dirs
                   /\ dir_path \notin unreadable
                   /\ Entries(dir_path) = {}
                THEN edpc' = "rmtree" /\ UNCHANGED rIdx
                ELSE rIdx' = rIdx + 1 /\ UNCHANGED edpc
    /\ UNCHANGED <<root_dirs, iteration, round_dirs, deleted_this_round>>
    /\ UNCHANGED <<dirs, files, nonEmptyDelVars>>

\* delete_empty_dirs, shutil.rmtree(dir_path) after the check: the directory
\* goes with whatever it holds by now. (Of a directory that is gone rmtree
\* raises, and the loop goes on.)
EdRmtree ==
    /\ edpc = "rmtree"
    /\ LET dir_path == round_dirs[rIdx]
       IN  IF dir_path \in dirs
           THEN /\ dirs' = dirs \ DirsBelow(dir_path)
                /\ files' = FilesWithout(FilesBelow(dir_path))
                /\ deleted_this_round' = deleted_this_round + 1
           ELSE UNCHANGED <<dirs, files, deleted_this_round>>
    /\ rIdx' = rIdx + 1
    /\ edpc' = "check"
    /\ UNCHANGED <<root_dirs, iteration, round_dirs>>
    /\ UNCHANGED nonEmptyDelVars

\* shutil.rmtree raises (the parent refuses the removal): `except Exception`,
\* and the loop goes on.
EdRmtreeFails ==
    /\ edpc = "rmtree"
    /\ rIdx' = rIdx + 1
    /\ edpc' = "check"
    /\ UNCHANGED <<root_dirs, iteration, round_dirs, deleted_this_round>>
    /\ UNCHANGED <<dirs, files, nonEmptyDelVars>>

\* delete_empty_dirs after the loop, once the "Deletion Complete" box is
\* closed: self.scan_empty_dirs(), which clears the list and starts a new
\* ScanWorker for the same directories.
EdRefresh ==
    /\ edpc = "report"
    /\ edpc' = "done"
    /\ is_cancelled' = FALSE
    /\ spc' = "emp_root"
    /\ rootIdx' = 1
    /\ dwalk' = << >>
    /\ emitted' = ""
    /\ all_dirs' = << >>
    /\ eIdx' = 1
    /\ empty_dirs' = << >>
    /\ worker_patterns' = << >>
    /\ UNCHANGED <<self_patterns, match_path, matched>>
    /\ UNCHANGED <<directories, max_workers, files_to_hash, ntasks, taskIdx,
                   inflight, hashed, file_hashes, file_info, result,
                   duplicates_list>>
    /\ UNCHANGED <<residual_files, res_log, progressVars>>
    /\ UNCHANGED <<root_dirs, iteration, round_dirs, rIdx, deleted_this_round>>
    /\ UNCHANGED <<fsVars, purgeVars, delVars, first_scan, stop_requested>>

\* The trees: a chain a/, a/a/, ... of 1..MaxDepth nested directories; beside
\* it c/ or not, empty or holding x.txt. The empty-directory scan has been
\* started.
InitNested ==
    /\ \E t \in ChainTrees :
         /\ t.chain = ChainDirs(t.depth, Nm("a"))
         /\ FileCX \in t.f => DirC \in t.d
         /\ dirs = t.d
         /\ files = [q \in t.f |-> 1]
    /\ directories \in RootLists
    /\ max_workers = 1
    /\ is_cancelled = FALSE
    /\ spc = "emp_root"
    /\ rootIdx = 1
    /\ dwalk = << >>
    /\ files_to_hash = << >>
    /\ ntasks = 0
    /\ taskIdx = 1
    /\ inflight = {}
    /\ hashed = {}
    /\ file_hashes = << >>
    /\ file_info = << >>
    /\ result = NoResult
    /\ emitted = ""
    /\ duplicates_list = << >>
    /\ InitPurgers
    /\ NoDeletion
    /\ first_scan = NoFirst
    /\ stop_requested = FALSE
    /\ NoEmptyDirDeletion
    /\ links = << >>
    /\ unreadable = {}
    /\ NoMatch

\* The scan, the selection and the rounds of deleting, nothing else touching
\* the tree and no removal failing.
NextNested ==
    \/ EmpRoot
    \/ EmpWalk
    \/ EmpCheck
    \/ EmpEmit
    \/ OnEmptyDirsScanFinished
    \/ DeleteEmptyDirs
    \/ EdScan
    \/ EdCheck
    \/ EdRmtree
    \/ EdRefresh

SpecNested == InitNested /\ [][NextNested]_vars

\* The same with another process that creates files in the tree, and with
\* removals that may fail.
NextRace ==
    \/ EmpRoot
    \/ EmpWalk
    \/ EmpCheck
    \/ EmpEmit
    \/ OnEmptyDirsScanFinished
    \/ DeleteEmptyDirs
    \/ EdScan
    \/ EdCheck
    \/ EdRmtree
    \/ EdRmtreeFails
    \/ EdRefresh
    \/ Writer

SpecRace == InitNested /\ [][NextRace]_vars

\* A chain a/, a/a/, ... of max_iterations + 1 nested empty directories under
\* one scan root; the empty-directory scan has listed the deepest, the only
\* empty one.
InitDeep ==
    /\ dirs = {ChainPath(k) : k \in 0..(max_iterations + 1)}
    /\ files = << >>
    /\ directories = <<root>>
    /\ max_workers = 1
    /\ is_cancelled = FALSE
    /\ spc = "emp_shown"
    /\ rootIdx = 2
    /\ dwalk = << >>
    /\ files_to_hash = << >>
    /\ ntasks = 0
    /\ taskIdx = 1
    /\ inflight = {}
    /\ hashed = {}
    /\ file_hashes = << >>
    /\ file_info = << >>
    /\ result = NoResult
    /\ emitted = "result"
    /\ duplicates_list = << >>
    /\ InitPurgers
    /\ NoDeletion
    /\ first_scan = NoFirst
    /\ stop_requested = FALSE
    /\ NoEmptyDirDeletion
    /\ links = << >>
    /\ unreadable = {}
    /\ self_patterns = << >>
    /\ worker_patterns = << >>
    /\ match_path = << >>
    /\ matched = -1
    /\ residual_files = << >>
    /\ res_log = << >>
    /\ total_scanned = 0
    /\ res_progress = << >>
    /\ all_dirs = << >>
    /\ eIdx = 1
    /\ empty_dirs = <<ChainPath(max_iterations + 1)>>

\* The rounds of deleting on that chain.
NextDeep ==
    \/ DeleteEmptyDirs
    \/ EdScan
    \/ EdCheck
    \/ EdRmtree

SpecDeep == InitDeep /\ [][NextDeep]_vars

\* ------------------------------------- the progress of a residual scan
\* How far the numbers of files in a directory of the trees lie from 0 and
\* from half of progress_every.
MaxExtra == 1

\* f.1, f.2, ..., f.n in directory d.
Numbered(d, n) == {Append(d, [base |-> "f", sfx |-> <<i>>]) : i \in 1..n}

\* The numbers of files a directory of the trees holds: up to MaxExtra, or
\* within MaxExtra of half of progress_every.
Sizes ==
    0..MaxExtra \cup
        ((progress_every \div 2) - MaxExtra)..((progress_every \div 2) + MaxExtra)

\* The trees: a/ and c/ with so many files beside them, and so many files in
\* each of the two. MainWindow.scan_residual has made the ScanWorker, with
\* the pattern *.DS_Store, and started it.
InitProgress ==
    /\ dirs = {root, DirA, DirC}
    /\ \E n0 \in Sizes, n1 \in Sizes :
         files = [q \in Numbered(root, n0) \cup Numbered(DirA, n1)
                           \cup Numbered(DirC, n1) |-> 1]
    /\ InitPurgers
    /\ NoDeletion
    /\ first_scan = NoFirst
    /\ stop_requested = FALSE
    /\ NoEmptyDirDeletion
    /\ links = << >>
    /\ unreadable = {}
    /\ TableLoaded
    /\ directories \in RootLists
    /\ max_workers = 1
    /\ is_cancelled = FALSE
    /\ spc = "res_collect"
    /\ rootIdx = 1
    /\ dwalk = << >>
    /\ files_to_hash = << >>
    /\ ntasks = 0
    /\ taskIdx = 1
    /\ inflight = {}
    /\ hashed = {}
    /\ file_hashes = << >>
    /\ file_info = << >>
    /\ result = NoResult
    /\ emitted = ""
    /\ duplicates_list = << >>

\* One residual scan of an unchanging tree, which the user may cancel.
NextProgress ==
    \/ Cancel
    \/ ResRoot
    \/ ResDir
    \/ ResEmit

SpecProgress == InitProgress /\ [][NextProgress]_vars

\* ================================================================ claims
Last(s) == s[Len(s)]

\* A run of purger r is between entering run() and leaving it.
Active(r) == pc[r] \notin {"idle", "done", "failed", "killed"}

\* C1: the purger never removes a directory that holds an entry, whatever a
\* concurrent writer does and whenever it does it: a step that makes the tree
\* lose a directory loses exactly one, which had no entry, and touches no
\* file; a path a live run appends to `deleted` was an empty directory when
\* the step removed it; and no step ever makes the tree lose a file.
C1_RemovesOnlyEmptyDirs ==
    [][ /\ Cardinality(DOMAIN files') >= Cardinality(DOMAIN files)
        /\ Cardinality(dirs') < Cardinality(dirs) =>
              \E d \in dirs : /\ Entries(d) = {}
                              /\ dirs' = dirs \ {d}
                              /\ files' = files
        /\ \A r \in Runs :
              (~dry[r] /\ deleted'[r] # deleted[r]) =>
                  /\ Last(deleted'[r]) \in dirs
                  /\ Entries(Last(deleted'[r])) = {}
                  /\ Last(deleted'[r]) \notin dirs' ]_vars

\* C1's case: a live run has finished with something deleted, while a
\* directory it quarantined still exists because the writer put a file in it
\* (between re-check and rename, or between rename and phase 2).
C1_Witness ==
    \E r \in Runs :
        /\ pc[r] = "done" /\ ~dry[r] /\ deleted[r] # << >>
        /\ \E q \in Range(renamed[r]) :
              q \in dirs /\ q \o <<WriterFile>> \in DOMAIN files

\* C2: a live run that found the lock directory in place and failed with
\* "Lock exists" does not remove that directory.
C2_FailedRunKeepsLock ==
    \A r \in Runs :
        raised[r] = "LockExists" => <<"rmdir", lock_dir>> \notin mutations[r]

\* C3: mutual exclusion: at most one live run is in phase 1, the sync barrier
\* or phase 2 at any time.
InPurge(r) == ~dry[r] /\ pc[r] \in {"phase1", "rename", "sync", "phase2"}

C3_MutualExclusion == Cardinality({r \in Runs : InPurge(r)}) <= 1

\* C4: a run whose lock acquisition failed has renamed and removed no
\* directory of the tree, and its `renamed` and `deleted` are empty.
C4_LockFailureMutatesNothing ==
    \A r \in Runs :
        raised[r] \in {"LockExists", "NoPermission"} =>
            /\ renamed[r] = << >>
            /\ deleted[r] = << >>
            /\ mutations[r] = {}


\* Purger r is the last one whose run() was entered.
Latest(r) == IF r = NumRuns THEN TRUE ELSE pc[r + 1] = "idle"

\* run() of purger r is over, and was not itself aborted.
Finished(r) ==
    Latest(r) /\ (pc[r] = "done" \/ (pc[r] = "failed" /\ raised[r] # "Interrupt"))

\* Purger r ran live, finished phase 1 and was aborted before phase 2.
Aborted(r) ==
    ~dry[r] /\ (pc[r] = "killed" \/ (pc[r] = "failed" /\ raised[r] = "Interrupt"))

\* Every directory run r left quarantined was renamed again and removed by
\* run s, and neither it nor the name it came from exists.
Recovered(r, s) ==
    \A q \in Range(renamed[r]) :
        /\ q \notin dirs
        /\ Original(q) \notin dirs
        /\ \E n \in Range(renamed[s]) :
              Original(n) = q /\ n \in Range(deleted[s])

\* C5 as claimed: after a live run was aborted between its phases, the next
\* live run, once over, has renamed and removed every directory the aborted
\* run left quarantined, and none of the original names exists.
C5_RerunRecovers ==
    \A r \in 1..(NumRuns - 1) :
        (Aborted(r) /\ ~dry[r + 1] /\ Finished(r + 1))
            => Recovered(r, r + 1)

\* C5 amended: the next live run recovers them when the abort was an
\* exception, so that run()'s finally clause released the lock; after a kill
\* the lock directory survives, the next run fails with "Lock exists" and
\* every quarantined directory is still there, the original names absent.
C5_RerunRecoversAfterRelease ==
    \A r \in 1..(NumRuns - 1) :
        (Aborted(r) /\ ~dry[r + 1] /\ Finished(r + 1)) =>
            IF pc[r] = "failed"
            THEN pc[r + 1] = "done" /\ Recovered(r, r + 1)
            ELSE /\ pc[r + 1] = "failed" /\ raised[r + 1] = "LockExists"
                 /\ \A q \in Range(renamed[r]) :
                       q \in dirs /\ Original(q) \notin dirs

\* C5's case: a run was interrupted with directories quarantined, and the
\* next run has finished.
C5_Witness ==
    \E r \in 1..(NumRuns - 1) :
        /\ Aborted(r) /\ pc[r] = "failed" /\ renamed[r] # << >>
        /\ ~dry[r + 1] /\ pc[r + 1] = "done" /\ Latest(r + 1)

\* The tree holds an empty directory other than the root.
HasEmptyDir == \E p \in dirs : p # root /\ Entries(p) = {}

\* The same, not counting directories named like the lock directory.
HasEmptyDirBesideLock ==
    \E p \in dirs : p # root /\ p[Len(p)] # lock_name /\ Entries(p) = {}

\* A step of a dry run leaves every directory and file as it was.
DryStepsKeepTree ==
    (\E r \in Runs : dry[r] /\ Active(r)) => (dirs' = dirs /\ files' = files)

\* C6 as claimed: a dry run changes nothing in the tree, and reports a
\* non-empty `renamed` and `deleted` whenever the tree holds an empty
\* directory other than the root.
C6_DryRunReportsAnyEmptyDir ==
    \A r \in Runs :
        (dry[r] /\ pc[r] = "done" /\ Latest(r)) =>
            /\ mutations[r] = {}
            /\ HasEmptyDir => (renamed[r] # << >> /\ deleted[r] # << >>)

\* C6 amended: a dry run changes nothing in the tree (no step of it does),
\* and reports a non-empty `renamed` and `deleted` whenever the tree holds an
\* empty directory that is neither the root nor named like the lock directory.
C6_DryRunMutatesNothing ==
    /\ [][DryStepsKeepTree]_vars
    /\ [](\A r \in Runs :
            (dry[r] /\ pc[r] = "done" /\ Latest(r)) =>
                /\ mutations[r] = {}
                /\ HasEmptyDirBesideLock =>
                      (renamed[r] # << >> /\ deleted[r] # << >>))

\* C6's case: a dry run is over on a tree that holds a lock directory and an
\* empty directory, and has reported it.
C6_Witness ==
    \E r \in Runs :
        /\ dry[r] /\ pc[r] = "done" /\ Latest(r) /\ lock_dir \in dirs
        /\ HasEmptyDirBesideLock /\ renamed[r] # << >>

Originals(s) == {Original(s[i]) : i \in 1..Len(s)}

\* C7: a dry run and the live run that follows it on the same tree list the
\* same original directories in `renamed`, and in each of them `deleted`
\* holds exactly the paths of `renamed`.
C7_DryAndLiveAgree ==
    \A r \in 1..(NumRuns - 1) :
        (dry[r] /\ pc[r] = "done" /\ ~dry[r + 1] /\ pc[r + 1] = "done") =>
            /\ Originals(renamed[r]) = Originals(renamed[r + 1])
            /\ Range(deleted[r]) = Range(renamed[r])
            /\ Range(deleted[r + 1]) = Range(renamed[r + 1])

\* C7's case: both runs are over and listed two directories.
C7_Witness ==
    \E r \in 1..(NumRuns - 1) :
        /\ dry[r] /\ pc[r] = "done" /\ ~dry[r + 1] /\ pc[r + 1] = "done"
        /\ Len(renamed[r + 1]) = 2 /\ Len(deleted[r]) = 2


\* scan_for_duplicates has returned a result that is not {}.
Scanned == spc \in {"emit", "finished", "shown"} /\ ~result.empty

\* The first position of path p in files_to_hash.
FirstIndex(p) ==
    CHOOSE k \in 1..Len(files_to_hash) :
        /\ files_to_hash[k] = p
        /\ \A j \in 1..(k - 1) : files_to_hash[j] # p

\* C8: every duplicate group returned is an ordered set: at least two
\* members, pairwise distinct paths, in the order they were enumerated.
C8_GroupsAreOrderedSets ==
    Scanned =>
        \A g \in 1..Len(result.duplicates) :
            LET paths == result.duplicates[g].paths
            IN  /\ Len(paths) >= 2
                /\ \A i, j \in 1..Len(paths) :
                      i < j => /\ paths[i] # paths[j]
                               /\ FirstIndex(paths[i]) < FirstIndex(paths[j])

\* The enumerated files whose digest was recorded, in enumeration order.
RECURSIVE HashedFrom(_)
HashedFrom(t) ==
    IF t > Len(files_to_hash) THEN << >>
    ELSE IF t \in hashed THEN <<files_to_hash[t]>> \o HashedFrom(t + 1)
    ELSE HashedFrom(t + 1)

\* The contents of the files of a sequence, each once, in the order met.
RECURSIVE ContentsMet(_, _)
ContentsMet(s, seen) ==
    IF s = << >> THEN << >>
    ELSE IF files[Head(s)] \in seen THEN ContentsMet(Tail(s), seen)
    ELSE <<files[Head(s)]>> \o ContentsMet(Tail(s), seen \cup {files[Head(s)]})

SameContent(s, c) == SelectSeq(s, LAMBDA p : files[p] = c)

\* The groups the tree and the enumeration call for: per content, in the
\* order the contents are met, the hashed files that have it, in enumeration
\* order, when there are two or more.
GroupsByContent ==
    LET h == HashedFrom(1)
        cs == SelectSeq(ContentsMet(h, {}),
                        LAMBDA c : Len(SameContent(h, c)) >= 2)
    IN  [k \in 1..Len(cs) |->
            [hash |-> Digest(cs[k]), paths |-> SameContent(h, cs[k])]]

\* C9: grouping is exact and does not depend on scheduling: the groups are
\* keyed by distinct digests, the members of a group have the content of its
\* key, two hashed files with the same content are in one same group, and the
\* groups (members and their order) are those the tree and the enumeration
\* order alone determine, whatever max_workers is.
C9_GroupingExact ==
    Scanned =>
        LET dups == result.duplicates
        IN  /\ \A g1, g2 \in 1..Len(dups) :
                  g1 # g2 => dups[g1].hash # dups[g2].hash
            /\ \A g \in 1..Len(dups) : \A p \in Range(dups[g].paths) :
                  Digest(files[p]) = dups[g].hash
            /\ \A p, q \in DOMAIN result.file_info :
                  (p # q /\ files[p] = files[q]) =>
                      \E g \in 1..Len(dups) : {p, q} \subseteq Range(dups[g].paths)
            /\ dups = GroupsByContent

\* C9's case: with two workers, a scan returned two groups.
C9_Witness ==
    Scanned /\ max_workers >= 2 /\ Len(result.duplicates) = 2

\* The rows shown for the members of group g.
MemberRows(g) ==
    SelectSeq(duplicates_list,
              LAMBDA row : row.group = g /\ row.text # "--- Group")

\* The first-enumerated member of the group with key h.
FirstEnumerated(h) ==
    LET ts == {t \in hashed : Digest(files[files_to_hash[t]]) = h}
    IN  files_to_hash[CHOOSE t \in ts : \A u \in ts : t <= u]

\* C10: in the list shown for a scan result, each group has exactly one row
\* marked [KEEP], it is the first row and carries the first-enumerated path
\* of the group, every other member row is marked [DELETE], and every member
\* still exists (the scan deleted nothing).
C10_KeepIsFirstEnumerated ==
    (spc = "shown" /\ emitted = "result" /\ ~result.empty) =>
        \A g \in 1..Len(result.duplicates) :
            LET rows == MemberRows(g)
            IN  /\ Len(rows) = Len(result.duplicates[g].paths)
                /\ {i \in 1..Len(rows) : rows[i].text = "[KEEP]"} = {1}
                /\ rows[1].path = FirstEnumerated(result.duplicates[g].hash)
                /\ \A i \in 2..Len(rows) : rows[i].text = "[DELETE]"
                /\ \A i \in 1..Len(rows) :
                      /\ rows[i].path = result.duplicates[g].paths[i]
                      /\ rows[i].path \in DOMAIN files

\* C10's case: a group of three members is shown.
C10_Witness ==
    /\ spc = "shown"
    /\ \E g \in 1..Len(result.duplicates) : Len(MemberRows(g)) = 3


\* C11: the deleter accounts for every item: when run() has emitted its
\* result, every processed item is counted once, in deleted_count or in
\* failed_items, and unless cancelled every item was processed.
C11_EveryItemAccounted ==
    dpc = "finished" =>
        /\ deleted_count + Len(failed_items) = dIdx - 1
        /\ ~del_cancelled => dIdx - 1 = Len(items)

\* C12: a populated directory is not force-removed: the turn of the loop
\* that meets an item expected to be a directory and finds it populated
\* reports it in failed_items and leaves the tree as it is.
C12_PopulatedDirSurvives ==
    [][(/\ dIdx' = dIdx + 1
        /\ item_type = "directory"
        /\ Populated(items[dIdx]))
       => (/\ failed_items' = Append(failed_items, items[dIdx])
           /\ dirs' = dirs
           /\ files' = files)]_vars


\* The base name of a path.
BaseName(p) == p[Len(p)]

\* Row i of table pats applies to name n: it is enabled and its glob matches.
Applies(pats, i, n) ==
    IsEnabled(pats[i]) /\ FnMatch(n, pats[i].File_Pattern)

\* C13: match_residual_pattern is first-match-wins on the base name: the
\* call returned the first row, in list order, that is enabled and whose
\* glob matches the base name of the path, and none when there is no such
\* row; every path with the same base name gets the same answer, and so
\* does the same call made again.
C13_FirstMatchWins ==
    matched # -1 =>
        LET n == BaseName(match_path)
        IN  /\ matched = 0 =>
                  \A i \in 1..Len(self_patterns) : ~Applies(self_patterns, i, n)
            /\ matched # 0 =>
                  /\ matched \in 1..Len(self_patterns)
                  /\ Applies(self_patterns, matched, n)
                  /\ \A j \in 1..(matched - 1) : ~Applies(self_patterns, j, n)
            /\ \A q \in MatchPaths :
                  BaseName(q) = n =>
                      match_residual_pattern(q, self_patterns) = matched
            /\ match_residual_pattern(match_path, self_patterns) = matched

\* C13's case: the call on a/x.txt returned the second row, "*.txt"; the
\* first row, "a", is enabled and matches the directory part of the path but
\* not its base name.
C13_Witness ==
    /\ matched = 2
    /\ match_path = FileAX
    /\ IsEnabled(self_patterns[1])
    /\ self_patterns[1].File_Pattern = "a"

InScope(e) == \E i \in 1..Len(directories) :
                  e # directories[i] /\ IsUnder(directories[i], e)
ScanEntries == {e \in dirs \cup DOMAIN files : InScope(e)}

\* How often entry e is reported, and with which patterns.
Reports(e) == {i \in 1..Len(residual_files) : residual_files[i].path = e}

\* C15: the residual scan is exhaustive and does not prune: when a scan that
\* was not cancelled has returned, every entry below a scan root whose base
\* name matches an enabled pattern is reported exactly once, with its first
\* matching pattern, also inside a directory that matched itself; an entry
\* that matches no enabled pattern is not reported.
C15_ResidualScanExhaustive ==
    (spc = "res_finished" /\ emitted = "result") =>
        /\ \A e \in ScanEntries :
              LET m == match_residual_pattern(e, self_patterns)
              IN  IF m = 0 THEN Reports(e) = {}
                  ELSE /\ Cardinality(Reports(e)) = 1
                       /\ \A i \in Reports(e) : residual_files[i].pattern = m
        /\ \A i \in 1..Len(residual_files) :
              residual_files[i].path \in ScanEntries


\* C16: the duplicate scan is idempotent: a second scan of the unchanged
\* tree, with the same directories and patterns and the same files readable,
\* returns what the first returned (the same digests, the same members of
\* each group, in the same order) and the same rows are shown for it.
C16_RescanIdentical ==
    (first_scan.made /\ hashed = first_scan.hashed) =>
        /\ spc \in {"emit", "finished", "shown"} => result = first_scan.result
        /\ spc = "shown" => duplicates_list = first_scan.list

\* C16's case: the second scan has been shown, and it found two groups.
C16_Witness ==
    /\ first_scan.made
    /\ hashed = first_scan.hashed
    /\ spc = "shown"
    /\ Len(result.duplicates) = 2


\* The scans of the example have come this far.
DuplicatesScanned == spc \notin {"collect", "dispatch", "await", "hashing",
                                 "group"}
ResidualScanned == spc \in {"res_finished", "emp_root", "emp_walk",
                            "emp_check", "emp_emit", "emp_finished"}
EmptyScanned == spc = "emp_finished"

\* C17: the example holds end to end: on the example tree with *.DS_Store
\* enabled, the residual scan returns exactly d/.DS_Store, the duplicate
\* scan exactly one group of b/x.txt and c/b_copy/y.txt, the empty-directory
\* scan exactly a, and the dry-run purge reports one path a.purge.<x> in both
\* renamed and deleted while a/ is still there.
C17_ExampleScenario ==
    /\ ResidualScanned =>
          /\ Len(residual_files) = 1
          /\ residual_files[1].path = FileDDS
          /\ self_patterns[residual_files[1].pattern].File_Pattern = "*.DS_Store"
    /\ DuplicatesScanned =>
          /\ Len(result.duplicates) = 1
          /\ result.duplicates[1].paths = <<FileBX, FileCBY>>
    /\ EmptyScanned => empty_dirs = <<DirA>>
    /\ pc[1] = "done" =>
          /\ \E h \in Hex : /\ renamed[1] = <<WithPurgeSuffix(DirA, h)>>
                            /\ deleted[1] = <<WithPurgeSuffix(DirA, h)>>
          /\ DirA \in dirs
          /\ raised[1] = ""
    /\ dirs = {root, DirA, DirB, DirC, DirCB, DirD}
    /\ DOMAIN files = {FileBX, FileCBY, FileDDS}

\* C17's case: the three scans and the dry-run purge are all done.
C17_Witness ==
    /\ EmptyScanned
    /\ emitted = "result"
    /\ pc[1] = "done"
    /\ dry[1]
    /\ Len(empty_dirs) = 1


\* Run r made the lock directory.
TookLock(r) == <<"mkdir", lock_dir>> \in mutations[r]

\* C18: the lock is released by the run that took it: when a run() that
\* made the lock directory returns or lets an exception propagate, the lock
\* directory is gone.
C18_LockReleasedAtReturn ==
    [][\A r \in Runs :
          (/\ pc[r] = "release"
           /\ pc'[r] \in {"done", "failed"}
           /\ TookLock(r))
          => lock_dir \notin dirs']_vars


\* The calls of run r that change the tree in this step.
NewCalls(r) == mutations'[r] \ mutations[r]

\* Run r has passed its sync barrier.
PastBarrier(r) == pc[r] \in {"phase2", "release", "done", "failed"}

\* C19: the phases of a run are strictly ordered: a rename is made only by a
\* run that has taken the lock and has not yet reached its sync barrier; a
\* quarantined directory is removed only after the barrier, when os.walk has
\* nothing left to yield and no rename is pending; and a run past its
\* barrier never goes back before it.
C19_PhasesOrdered ==
    [][\A r \in Runs :
          /\ \A c \in NewCalls(r) :
                /\ c[1] = "rename" =>
                      /\ TookLock(r)
                      /\ pc[r] = "rename"
                      /\ ~PastBarrier(r)
                      /\ deleted[r] = << >>
                /\ (c[1] = "rmdir" /\ c[2] # lock_dir) =>
                      /\ pc[r] = "phase2"
                      /\ stack[r] = << >>
                      /\ cur[r] = root
                      /\ \E q \in mutations[r] : q[1] = "rename"
          /\ PastBarrier(r) => PastBarrier(r)' ]_vars

\* C19's case: a run that renamed two directories has removed both and
\* released the lock.
C19_Witness ==
    \E r \in Runs :
        /\ pc[r] = "done"
        /\ Cardinality({c \in mutations[r] : c[1] = "rename"}) = 2
        /\ Cardinality({c \in mutations[r] :
                           c[1] = "rmdir" /\ c[2] # lock_dir}) = 2


\* C20: once cancellation has been requested, the run may finish the
\* rename it is in the middle of, but it starts no rename and makes no
\* removal of a further directory (the lock aside), and when it returns the
\* lock is released.
C20_CancelStopsPurge ==
    [][\A r \in Runs :
          stop_requested =>
              /\ pc[r] = "phase1" => pc'[r] # "rename"
              /\ \A c \in NewCalls(r) : c[1] = "rename" \/ c[2] = lock_dir
              /\ (pc[r] = "release" /\ pc'[r] \in {"done", "failed"}
                  /\ TookLock(r)) => lock_dir \notin dirs']_vars

\* C21: a cancelled scan ends without an error and hands back what it had
\* accumulated when it was cancelled: scan_residual_files returns the
\* residual_files it holds at its return, and ScanWorker.run emits that
\* result with signals.finished.
C21_CancelKeepsPartial ==
    [][/\ (spc = "res_collect" /\ spc' = "res_emit")
            => residual_files' = residual_files
       /\ (spc = "res_emit" /\ spc' = "res_finished")
            => emitted' = "result"]_vars

FailedPaths ==
    {files_to_hash[t] : t \in (1..Len(files_to_hash)) \ hashed}

\* The groups an enumeration s calls for when every file of it is hashed.
GroupsOf(s) ==
    LET cs == SelectSeq(ContentsMet(s, {}),
                        LAMBDA c : Len(SameContent(s, c)) >= 2)
    IN  [k \in 1..Len(cs) |->
            [hash |-> Digest(cs[k]), paths |-> SameContent(s, cs[k])]]

\* C23: a file whose hashing fails is dropped and nothing else is affected:
\* the scan still returns a result, the file is in neither file_info nor any
\* group, and file_info and the groups are those of the same enumeration
\* without that file.
C23_FailedFileIsDropped ==
    Scanned =>
        LET rest == SelectSeq(files_to_hash, LAMBDA p : p \notin FailedPaths)
        IN  /\ \A p \in FailedPaths :
                  /\ p \notin DOMAIN result.file_info
                  /\ \A g \in 1..Len(result.duplicates) :
                         p \notin Range(result.duplicates[g].paths)
            /\ DOMAIN result.file_info = Range(rest)
            /\ result.duplicates = GroupsOf(rest)

\* C24: the duplicate scan only considers regular files: no symbolic link is
\* handed to the hasher, and none is in the file_info or in a group of the
\* result.
C24_OnlyRegularFilesHashed ==
    /\ \A t \in inflight \cup hashed : files_to_hash[t] \notin DOMAIN links
    /\ Scanned =>
          /\ DOMAIN result.file_info \cap DOMAIN links = {}
          /\ \A g \in 1..Len(result.duplicates) :
                 Range(result.duplicates[g].paths) \cap DOMAIN links = {}

\* C25: the empty-directory scan reports only real directories with zero
\* entries: every reported path is a directory, not a symbolic link and not
\* a scan root, and has no entry; a directory whose only entries are symbolic
\* links is not reported.
C25_ReportsOnlyEmptyDirs ==
    /\ \A p \in Range(empty_dirs) :
          /\ p \in dirs
          /\ p \notin DOMAIN links
          /\ p \notin Range(directories)
          /\ Entries(p) = {}
    /\ \A p \in dirs :
          (Entries(p) # {} /\ Entries(p) \subseteq DOMAIN links)
              => p \notin Range(empty_dirs)


\* Directory d is reached by the walk of a scan root: it is at or below a
\* root that exists, and every directory from that root down to its parent
\* can be listed.
Reached(d) ==
    /\ d \in dirs
    /\ \E i \in 1..Len(directories) :
          LET r == directories[i]
          IN  /\ r \in dirs
              /\ IsUnder(r, d)
              /\ \A k \in Len(r)..(Len(d) - 1) :
                     SubSeq(d, 1, k) \notin unreadable

\* The entries outside every skipped subtree: those of a reached directory
\* that can be listed.
Visited ==
    {e \in dirs \cup DOMAIN files :
        e # << >> /\ Reached(Parent(e)) /\ Parent(e) \notin unreadable}

\* The entries of the skipped subtrees.
Skipped ==
    {e \in dirs \cup DOMAIN files :
        \E d \in unreadable : Reached(d) /\ e # d /\ IsUnder(d, e)}

\* C26 without the log event: a directory that cannot be read is skipped with
\* its subtree, and every entry outside is visited and classified.
ResidualScanSkipsSubtree ==
    (spc = "res_finished" /\ emitted = "result") =>
        /\ \A e \in Skipped : Reports(e) = {}
        /\ \A e \in Visited :
              LET m == match_residual_pattern(e, self_patterns)
              IN  IF m = 0 THEN Reports(e) = {}
                  ELSE \E i \in Reports(e) : residual_files[i].pattern = m

\* C26: an error reading one sub-directory during the residual scan is not
\* fatal and is visible: the scan returns its result, the subtree of that
\* directory is skipped, every entry outside it is visited and classified,
\* and a log event names the directory.
C26_UnreadableSubtreeLogged ==
    (spc = "res_finished" /\ emitted = "result") =>
        /\ ResidualScanSkipsSubtree
        /\ \A d \in unreadable :
              Reached(d) =>
                  \E i \in 1..Len(res_log) : res_log[i].directory = d


\* C27: phase 1 renames only directories that were empty twice. In a live
\* run, a directory the walk flags as empty had no entry when it was listed;
\* the run goes on to rename a directory only if it is so flagged, is not the
\* root, is not named as the lock directory, and has no entry at the
\* re-check; and a rename that is recorded moved that directory to a new name
\* in the same parent, the old name with one suffix appended.
C27_RenameOnlyTwiceEmpty ==
    [][\A r \in Runs :
         /\ \A i \in 1..Len(stack'[r]) :
               LET it == stack'[r][i]
               IN  (~it.scan /\ it.empty /\ it \notin Range(stack[r]))
                       => Entries(it.path) = {}
         /\ (pc[r] # "rename" /\ pc'[r] = "rename") =>
               /\ ~dry[r]
               /\ ~Head(stack[r]).scan
               /\ Head(stack[r]).empty
               /\ Head(stack[r]).path = cur'[r]
               /\ cur'[r] \in dirs
               /\ Entries(cur'[r]) = {}
               /\ cur'[r] # root
               /\ Last(cur'[r]) # lock_name
         /\ (~dry[r] /\ renamed'[r] # renamed[r]) =>
               LET p == cur[r]
                   new == Last(renamed'[r])
               IN  /\ pc[r] = "rename"
                   /\ renamed'[r] = Append(renamed[r], new)
                   /\ p # root
                   /\ Last(p) # lock_name
                   /\ Parent(new) = Parent(p)
                   /\ Original(new) = p
                   /\ p \in dirs /\ p \notin dirs' /\ new \in dirs'
                   /\ root \in dirs']_vars

\* C27's case: a live run has renamed a/b, which was empty, and has left a/,
\* the root and its lock directory under their names.
C27_Witness ==
    \E r \in Runs :
        /\ ~dry[r]
        /\ pc[r] = "sync"
        /\ <<"rename", DirAB>> \in mutations[r]
        /\ Len(renamed[r]) = 1
        /\ Original(renamed[r][1]) = DirAB
        /\ renamed[r][1] \in dirs
        /\ {root, DirA, lock_dir} \subseteq dirs


\* C28: report and disk agree when nothing but purge runs touches the tree.
\* For every path q a live run has in `renamed`, the name it was renamed
\* from does not exist, q is not both there and reported deleted, and q is
\* in exactly one of the states quarantined (q exists) and removed (q is in
\* `deleted` and does not exist); every path of `deleted` is in `renamed`.
\* This holds at every state of the run and after its return, until a later
\* run handles the tree.
C28_ReportMatchesDisk ==
    \A r \in Runs :
        (~dry[r] /\ Latest(r)) =>
            /\ \A q \in Range(renamed[r]) :
                  /\ Original(q) \notin dirs
                  /\ q \in dirs <=> q \notin Range(deleted[r])
            /\ Range(deleted[r]) \subseteq Range(renamed[r])
            /\ \A i, j \in 1..Len(renamed[r]) :
                  i # j => renamed[r][i] # renamed[r][j]
            /\ \A i, j \in 1..Len(deleted[r]) :
                  i # j => deleted[r][i] # deleted[r][j]

\* C28's case: a live run, the latest, is in phase 2 with one of its two
\* quarantined directories removed and the other still there.
C28_Witness ==
    \E r \in Runs :
        /\ ~dry[r]
        /\ Latest(r)
        /\ pc[r] = "phase2"
        /\ Len(renamed[r]) = 2
        /\ Len(deleted[r]) = 1
        /\ \E q \in Range(renamed[r]) : q \in dirs


\* C29: a failure on one directory does not abort a purge run. When a rename
\* fails, nothing is recorded in `renamed` or `deleted`, no exception is
\* pending and phase 1 goes on with the directories the walk has left; when
\* the removal of a quarantined directory fails, it stays in `renamed`, is
\* not in `deleted`, no exception is pending and phase 2 goes on with the
\* rest; no step of either phase raises.
C29_FailuresDoNotAbort ==
    [][\A r \in Runs :
         /\ (pc[r] = "rename" /\ pc'[r] # "rename"
               /\ renamed'[r] = renamed[r]) =>
               /\ pc'[r] = "phase1"
               /\ stack'[r] = stack[r]
               /\ deleted'[r] = deleted[r]
               /\ raised'[r] = ""
         /\ (pc[r] = "phase2" /\ ordered'[r] # ordered[r]
               /\ deleted'[r] = deleted[r]) =>
               /\ pc'[r] = "phase2"
               /\ ordered'[r] = Tail(ordered[r])
               /\ Head(ordered[r]) \in Range(renamed'[r])
               /\ Head(ordered[r]) \notin Range(deleted'[r])
               /\ raised'[r] = ""
         /\ pc[r] \in {"phase1", "rename", "phase2"} =>
               (raised[r] = "" /\ raised'[r] = "")]_vars

\* C29's case: a live run has returned normally although the rename of a/
\* failed (a/ is still there, empty, and not reported) and the removal of
\* the quarantined c/ failed (it is in `renamed` only and still there).
C29_Witness ==
    \E r \in Runs :
        /\ ~dry[r]
        /\ pc[r] = "done"
        /\ raised[r] = ""
        /\ DirA \in dirs
        /\ Entries(DirA) = {}
        /\ Len(renamed[r]) = 1
        /\ Original(renamed[r][1]) = DirC
        /\ renamed[r][1] \in dirs
        /\ deleted[r] = << >>


\* Path p is to be attempted before path q: it has more components, or as
\* many and the smaller path string.
AttemptedBefore(p, q) ==
    Len(p) > Len(q) \/ (Len(p) = Len(q) /\ StrLess(p, q))

\* C30: phase 2 processes the quarantined directories deepest path first,
\* ties by path string, whatever the order phase 1 recorded them in: the
\* paths still to attempt are those of `renamed` not yet attempted, in that
\* order, every path attempted already comes before every path still to
\* attempt, and `deleted` is in that order too.
C30_DeepestFirst ==
    \A r \in Runs :
        pc[r] = "phase2" =>
            /\ Range(ordered[r]) \subseteq Range(renamed[r])
            /\ Range(deleted[r]) = Range(renamed[r]) \ Range(ordered[r])
            /\ \A i, j \in 1..Len(ordered[r]) :
                  i < j => AttemptedBefore(ordered[r][i], ordered[r][j])
            /\ \A p \in Range(renamed[r]) \ Range(ordered[r]) :
                  \A q \in Range(ordered[r]) : AttemptedBefore(p, q)
            /\ \A i, j \in 1..Len(deleted[r]) :
                  i < j => AttemptedBefore(deleted[r][i], deleted[r][j])

\* C30's case: phase 1 recorded a/ before c/d/ and a/ before a.purge.1/, and
\* phase 2 has removed c/d/ first and then a.purge.1/ before a/.
C30_Witness ==
    /\ ~dry[1]
    /\ pc[1] = "phase2"
    /\ Len(renamed[1]) = 3
    /\ Original(renamed[1][1]) = DirA
    /\ Original(renamed[1][2]) = StaleA
    /\ Original(renamed[1][3]) = DirCD
    /\ Len(deleted[1]) = 3
    /\ deleted[1][1] = renamed[1][3]
    /\ deleted[1][2] = renamed[1][2]
    /\ deleted[1][3] = renamed[1][1]


\* The directories the purges started on, when nothing else touches the
\* tree and no lock directory was there: those there now under the names
\* they had, but for the lock directory of a run, and those the runs have
\* deleted.
NameAtStart(p) == IF IsQuarantined(p) THEN Original(p) ELSE p
DirsAtStart ==
    {NameAtStart(p) : p \in dirs \ {lock_dir}}
        \cup UNION {{Original(q) : q \in Range(deleted[r])} : r \in Runs}

\* The purges started on tree t.
StartsOn(t) == DirsAtStart = t.d /\ DOMAIN files = t.f

\* The directories of t other than the root that have no entry.
EmptyAtStart(t) ==
    {p \in t.d \ {root} :
        \A q \in t.d \cup t.f : ~(Len(q) = Len(p) + 1 /\ Parent(q) = p)}

\* Started on t: the first run, once over, has removed the directories that
\* were empty and nothing else; once as many runs as the chain is deep are
\* over, none of the chain is left; the run after them renames and deletes
\* nothing.
ConvergesFrom(t) ==
    /\ (pc[1] = "done" /\ Latest(1)) =>
          (dirs = t.d \ EmptyAtStart(t) /\ DOMAIN files = t.f)
    /\ (pc[t.depth] = "done" /\ Latest(t.depth)) => t.chain \cap dirs = {}
    /\ pc[t.depth + 1] = "done" =>
          (renamed[t.depth + 1] = << >> /\ deleted[t.depth + 1] = << >>)

\* C31: repeated live purges converge: one run removes exactly the
\* directories, other than the root, that had no entry when it started (a
\* parent holding only empty directories stays for a later run); a chain of
\* nested empty directories of depth d is gone after d runs, and the run
\* after that renames and deletes nothing.
C31_PurgeConverges ==
    \A t \in ChainTrees : StartsOn(t) => ConvergesFrom(t)

\* The part of C31 that holds: the same, on the trees without a directory
\* named like the lock directory.
PurgeConvergesBesideLockNames ==
    \A t \in ChainTrees :
        (StartsOn(t) /\ \A p \in t.d : p = root \/ p[Len(p)] # lock_name)
            => ConvergesFrom(t)

\* A chain of depth MaxDepth is gone after as many runs, and one more run is
\* over.
ChainGone ==
    /\ pc[MaxDepth + 1] = "done"
    /\ \A r \in 1..MaxDepth : deleted[r] # << >>
    /\ dirs \subseteq {root, DirC}


\* A step of the scan hands one more hash computation to the pool.
Dispatches == NextScan /\ Cardinality(inflight') > Cardinality(inflight)

\* A hash computation is in progress, a thread of the pool is free, a task
\* not yet handed to the pool remains, and the scan has not been cancelled.
CouldOverlap ==
    /\ max_workers >= 2
    /\ inflight # {}
    /\ Cardinality(inflight) < max_workers
    /\ \E t \in 1..ntasks : t \notin inflight /\ t >= taskIdx
    /\ ~is_cancelled

\* C32: hashing is concurrent: with two or more workers and files, the next
\* hash task can be handed to the pool while the previous one is still being
\* computed (so that two computations are in progress at once), and never
\* more than max_workers are in progress.
C32_HashingConcurrent ==
    /\ Cardinality(inflight) <= max_workers
    /\ CouldOverlap => ENABLED Dispatches

\* What holds instead: at most one hash computation is in progress at any
\* time, whatever max_workers is.
HashingIsSequential == Cardinality(inflight) <= 1

\* Two files are to be hashed by two workers, and the first is being hashed.
FirstOfTwoInProgress == CouldOverlap /\ ntasks >= 2 /\ inflight = {1}


\* A ScanWorker's run() is between its start and its finished signal.
ScanRunning ==
    spc \in {"collect", "dispatch", "await", "hashing", "group", "emit",
             "res_collect", "res_emit", "emp_root", "emp_walk", "emp_check",
             "emp_emit"}

\* Every match found so far is the one the worker's list gives for its path.
ClassifiedByWorkerList ==
    \A i \in 1..Len(residual_files) :
        residual_files[i].pattern =
            match_residual_pattern(residual_files[i].path, worker_patterns)

\* C38: the pattern list a ScanWorker holds does not change while it runs,
\* whatever the user saves or reloads meanwhile, and every entry the run has
\* matched is classified by that one list.
C38_PatternSnapshot ==
    /\ [][ScanRunning => worker_patterns' = worker_patterns]_vars
    /\ [](ScanRunning => ClassifiedByWorkerList)

\* C38's case: the scan has matched an entry and is still running, and the
\* table the window holds has since been saved without the row that matched.
C38_Witness ==
    /\ spc = "res_collect"
    /\ residual_files # << >>
    /\ self_patterns # worker_patterns
    /\ match_residual_pattern(residual_files[1].path, self_patterns) = 0


\* The base name of p matches an enabled pattern of the worker's list.
IsResidual(p) == match_residual_pattern(p, worker_patterns) # 0

\* The paths of the groups in a file_hashes or duplicates value.
GroupedPaths(fh) == UNION {Range(fh[k].paths) : k \in 1..Len(fh)}

\* scan_for_duplicates has returned.
DuplicateScanReturned == spc \in {"emit", "finished", "shown"}

\* C33: residual files are left out of duplicate detection: no path in
\* file_info or in a group has a base name that matches an enabled pattern;
\* and a file whose own name matches none is hashed and reported even when
\* the directory it lies in has a name that matches one.
C33_ResidualExcluded ==
    /\ \A p \in DOMAIN file_info \cup DOMAIN result.file_info : ~IsResidual(p)
    /\ \A p \in GroupedPaths(file_hashes) \cup GroupedPaths(result.duplicates) :
          ~IsResidual(p)
    /\ DuplicateScanReturned =>
          \A p \in DOMAIN files :
              (~IsResidual(p) /\ Parent(p) # root /\ IsResidual(Parent(p)))
                  => p \in DOMAIN result.file_info

\* C33's case: the scan has returned; a/ matches the enabled pattern "a" and
\* a/.DS_Store an enabled *.DS_Store, which is in no group and not in
\* file_info, while a/x.txt is in a group.
C33_Witness ==
    /\ DuplicateScanReturned
    /\ IsResidual(DirA)
    /\ FileADS \in DOMAIN files /\ IsResidual(FileADS)
    /\ FileADS \notin DOMAIN result.file_info
    /\ FileAX \in GroupedPaths(result.duplicates)


\* Every item the worker was given is gone or is listed as failed.
EveryItemSettled ==
    \A i \in 1..Len(items) :
        items[i] \notin DOMAIN files \/ items[i] \in Range(failed_items)

\* C34: a deletion of duplicates that the user confirmed is carried out: the
\* worker made for the selected paths runs, and in the end its result has
\* been handled, with every selected file deleted or listed as failed and
\* the progress bar and the stop button reset.
C34_ConfirmedDeletionRuns ==
    (dpc = "created") ~> (dpc = "reset" /\ EveryItemSettled)

\* What holds instead: the worker made by delete_duplicates never takes a
\* step; as long as it is the window's worker no file goes and the progress
\* bar stays.
DuplicateDeletionNeverRuns ==
    [][dpc = "created" =>
          (files' = files /\ (dpc' = "created" => ProgressShown'))]_vars

\* The other list's deletions do run: a worker made by
\* delete_residual_files ends with its result handled.
ResidualDeletionRuns == (dpc = "loop") ~> (dpc = "reset" /\ EveryItemSettled)

\* Two rows of the duplicates list have been selected and confirmed.
TwoDuplicatesConfirmed == dpc = "created" /\ Len(items) = 2


\* The first member of every group of the scan exists as a regular file
\* with the content the group was formed for.
KeepMembersIntact ==
    \A g \in 1..Len(result.duplicates) :
        LET keep == result.duplicates[g].paths[1]
        IN  /\ keep \in DOMAIN files
            /\ Digest(files[keep]) = result.duplicates[g].hash

\* The batch deleter has deleted the losers of the scan.
LosersDeleted ==
    /\ dpc = "finished"
    /\ items = Losers(result.duplicates)
    /\ failed_items = << >>

\* C35: deleting the losers loses no content: once the batch deleter has
\* deleted every member of every group but the keep member, each keep member
\* still exists as a file with its group's content.
C35_KeepSurvives == LosersDeleted => KeepMembersIntact

\* The part of C35 that holds: the same when no scan root lies inside
\* another, so that no file is enumerated twice.
KeepSurvivesOneRoot ==
    (LosersDeleted /\ Len(directories) = 1) => KeepMembersIntact

\* The losers of a group of three have been deleted, scanned from one root.
LosersOfThreeDeleted ==
    LosersDeleted /\ Len(directories) = 1 /\ deleted_count = 2


\* ---- C36
\* delete_empty_dirs has checked the directory it is at and is about to
\* remove it, and the directory holds an entry by now.
RepopulatedBeforeRmtree ==
    /\ edpc = "rmtree"
    /\ round_dirs[rIdx] \in dirs
    /\ Entries(round_dirs[rIdx]) # {}

\* C36: under every interleaving of delete_empty_dirs with a process that
\* creates files in the tree, no step removes a directory that holds an
\* entry at that moment, and no step deletes a file.
C36_NoCheckThenActRace ==
    [][/\ \A d \in dirs \ dirs' : Entries(d) = {}
       /\ DOMAIN files \subseteq DOMAIN files']_vars

\* A file the other process created is gone again.
WriterFileLost ==
    [][\A d \in dirs : (d \o <<WriterFile>>) \in DOMAIN files =>
                         (d \o <<WriterFile>>) \in DOMAIN files']_vars

\* ---- C37
\* delete_empty_dirs has left its loop.
EdFinished == edpc \in {"report", "done"}

\* The directories under the affected scan roots that are no scan root.
UnderAffected ==
    {q \in dirs : /\ \E r \in root_dirs : IsUnder(r, q)
                  /\ q \notin Range(directories)}

NoEmptyLeft == \A q \in UnderAffected : Entries(q) # {}

\* No step removes a scan root.
RootsKept == [][\A r \in Range(directories) : r \in dirs => r \in dirs']_vars

\* No scan root lies inside another.
RootsApart ==
    \A i, j \in 1..Len(directories) :
        i # j => ~IsUnder(directories[i], directories[j])

\* C37: with nothing else changing the tree and no removal failing, once
\* delete_empty_dirs has left its loop no empty directory other than a scan
\* root remains under the scan roots it worked on, however deep the empty
\* directories were nested; and no scan root is ever removed.
C37_AllNestedEmptiesRemoved ==
    /\ [](EdFinished => NoEmptyLeft)
    /\ RootsKept

\* The same for scan roots none of which lies inside another.
AllNestedEmptiesRemovedRootsApart ==
    /\ [](RootsApart /\ EdFinished => NoEmptyLeft)
    /\ [][RootsApart => \A r \in Range(directories) :
                            r \in dirs => r \in dirs']_vars

\* A chain of MaxDepth nested empty directories has been removed, in as many
\* rounds and one more that found nothing.
DeepChainRemoved ==
    /\ edpc = "report"
    /\ iteration = MaxDepth + 1
    /\ ChainPath(1) \notin dirs

\* A scan root has been removed.
ScanRootRemoved ==
    /\ edpc = "report"
    /\ \E r \in Range(directories) : r \notin dirs


\* delete_empty_dirs has left its loop after max_iterations rounds, and the
\* directory at the top of the chain is still there, empty.
DeepChainLeft ==
    /\ edpc = "report"
    /\ iteration = max_iterations
    /\ ChainPath(1) \in dirs
    /\ Entries(ChainPath(1)) = {}


\* ---- C39
\* C39: the counts carried by the progress events of one residual scan are
\* progress_every, 2 * progress_every, ... in this order, one event for every
\* multiple of progress_every up to the number of entries visited and none
\* for the entries in between: they increase strictly, and each belongs to a
\* multiple of its own.
C39_ProgressEveryHundred ==
    res_progress =
        [i \in 1..(total_scanned \div progress_every) |-> i * progress_every]

\* A scan has ended with two progress events, and the last entry it visited
\* brought none.
C39_Witness ==
    /\ spc = "res_finished"
    /\ emitted = "result"
    /\ Len(res_progress) = 2
    /\ total_scanned % progress_every # 0


\* The tree the purges started on is one of the trees, whatever they have
\* done since.
StartTreeKnown == \E t \in ChainTrees : StartsOn(t)

====
